---- MODULE Spec2Model ----
(***************************************************************************)
(* Model of TKT/kernel_config.py: the KernelConfig workflow that reads,    *)
(* modifies, backs up, restores and validates a kernel .config file and    *)
(* drives 'make defconfig' / 'make olddefconfig'.                          *)
(*                                                                         *)
(* A file's content is the sequence of its characters; a Python str that   *)
(* is parsed (config keys and values) is a sequence of characters too;     *)
(* status and result messages are TLA+ strings built with \o.              *)
(***************************************************************************)
EXTENDS Naturals, Sequences, FiniteSets, TLC

VARIABLES
    dirExists,      \* kernel_source_dir.exists()
    markers,        \* which of Kconfig / Makefile / init exist under it
    config,         \* the file .config      : [exists, text]
    backup,         \* the file .config.backup: [exists, text]
    pc,             \* per caller: position inside apply_config_changes
    kernel_version, \* per caller: KernelConfig.kernel_version
    changes,        \* per caller: the argument of apply_config_changes
    status_messages,\* per caller: KernelConfig.status_messages
    result,         \* per caller: the (success, message) pair returned
    pending,        \* per caller: the pair to return once the rollback ran
    steps,          \* per caller: what each step of the current call returned
    events,         \* per caller: the operations the current call performed
    snap,           \* per caller: file contents seen at call, backup, return
    calls,          \* number of apply_config_changes calls started
    faults,         \* number of file I/O errors injected so far
    call,           \* the last method called directly on the session of c1
    ops,            \* number of methods called directly on that session
    history         \* every message those calls passed to add_status, in order

vars == <<dirExists, markers, config, backup, pc, kernel_version, changes,
          status_messages, result, pending, steps, events, snap, calls,
          faults, call, ops, history>>

\* what a direct method call on a session leaves alone
workflowVars == <<pc, kernel_version, changes, result, pending, steps, events,
                  snap, calls>>
\* what the apply_config_changes workflow leaves alone
sessionVars == <<call, ops, history>>

-----------------------------------------------------------------------------
(* Bounds of the exploration *)

\* apply_config_changes calls made one after another on the same directory
MaxCalls == 2
\* file I/O errors (open/read/write/copy raising) injected in one behaviour
MaxFaults == 1
\* calls that change the status log of one session
MaxAdds == 12
\* of these, the calls of methods other than add_status
MaxOps == 2

-----------------------------------------------------------------------------
(* Characters and Python str operations *)

NL == "\n"
CR == "\r"
TAB == "\t"

\* printable ASCII in code point order, 32 (space) to 95 (_) and 97 (a) to
\* 126 (~); code point 96 is not used by any text of the model
AsciiLow ==
    <<" ", "!", "\"", "#", "$", "%", "&", "'", "(", ")", "*", "+", ",",
      "-", ".", "/", "0", "1", "2", "3", "4", "5", "6", "7", "8", "9", ":",
      ";", "<", "=", ">", "?", "@", "A", "B", "C", "D", "E", "F", "G", "H",
      "I", "J", "K", "L", "M", "N", "O", "P", "Q", "R", "S", "T", "U", "V",
      "W", "X", "Y", "Z", "[", "\\", "]", "^", "_">>

AsciiHigh ==
    <<"a", "b", "c", "d", "e", "f", "g", "h", "i", "j", "k", "l", "m", "n",
      "o", "p", "q", "r", "s", "t", "u", "v", "w", "x", "y", "z", "{", "|",
      "}", "~">>

\* ord(c)
CodePoint(c) ==
    IF c = TAB THEN 9
    ELSE IF c = NL THEN 10
    ELSE IF c = CR THEN 13
    ELSE IF \E i \in 1..Len(AsciiLow) : AsciiLow[i] = c
    THEN 31 + (CHOOSE i \in 1..Len(AsciiLow) : AsciiLow[i] = c)
    ELSE 96 + (CHOOSE i \in 1..Len(AsciiHigh) : AsciiHigh[i] = c)

\* a < b for Python str: code point lexicographic order
RECURSIVE StrLess(_, _)
StrLess(a, b) ==
    IF b = <<>> THEN FALSE
    ELSE IF a = <<>> THEN TRUE
    ELSE IF Head(a) = Head(b) THEN StrLess(Tail(a), Tail(b))
    ELSE CodePoint(Head(a)) < CodePoint(Head(b))

\* the characters of s as one string: what an f-string interpolates
RECURSIVE Str(_)
Str(s) == IF s = <<>> THEN "" ELSE Head(s) \o Str(Tail(s))

\* str.isspace for the characters str.strip() removes
IsSpace(c) == c \in {" ", TAB, NL, CR}

\* the least and the greatest of a non-empty set of positions
MinOf(S) == CHOOSE x \in S : \A y \in S : x <= y
MaxOf(S) == CHOOSE x \in S : \A y \in S : y <= x

\* str.strip(): from the first to the last character that is not whitespace
Strip(s) ==
    LET solid == {i \in 1..Len(s) : ~IsSpace(s[i])}
    IN  IF solid = {} THEN <<>> ELSE SubSeq(s, MinOf(solid), MaxOf(solid))

\* str.startswith(p)
StartsWith(s, p) == Len(s) >= Len(p) /\ SubSeq(s, 1, Len(p)) = p

\* "=" in line ; position of the first "=" (0 when there is none)
FindEq(line) ==
    IF \E i \in 1..Len(line) : line[i] = "="
    THEN CHOOSE i \in 1..Len(line) :
            line[i] = "=" /\ \A j \in 1..(i - 1) : line[j] # "="
    ELSE 0

\* text-mode reading translates "\r\n" and "\r" to "\n" (newline=None):
\* the "\n" of a "\r\n" is dropped and every "\r" becomes "\n"
UniversalNewlines(t) ==
    IF \A i \in 1..Len(t) : t[i] # CR THEN t
    ELSE LET kept == {i \in 1..Len(t) :
                         ~(t[i] = NL /\ i > 1 /\ t[i - 1] = CR)}
             nth(k) == CHOOSE i \in kept :
                         Cardinality({j \in kept : j <= i}) = k
         IN  [k \in 1..Cardinality(kept) |->
                 IF t[nth(k)] = CR THEN NL ELSE t[nth(k)]]

\* 'for line in f': the lines of the text, each up to and including its
\* "\n"; the text after the last "\n", when there is some, is the last line
Lines(t) ==
    LET ends == {i \in 1..Len(t) : t[i] = NL}
        nth(k) == CHOOSE e \in ends : Cardinality({x \in ends : x <= e}) = k
        start(k) == IF k = 1 THEN 1 ELSE nth(k - 1) + 1
        full == [k \in 1..Cardinality(ends) |-> SubSeq(t, start(k), nth(k))]
        last == IF ends = {} THEN 0 ELSE MaxOf(ends)
    IN  IF last < Len(t) THEN Append(full, SubSeq(t, last + 1, Len(t)))
        ELSE full

-----------------------------------------------------------------------------
(* Dict[str, str]: a function from keys to values *)

EmptyDict == [k \in {} |-> <<>>]

\* d[key] = value
DictSet(d, key, value) ==
    [k \in DOMAIN d \cup {key} |-> IF k = key THEN value ELSE d[k]]

\* sorted(keys, reverse=True)
RECURSIVE Sorted_descending(_)
Sorted_descending(keys) ==
    IF keys = {} THEN <<>>
    ELSE LET greatest == CHOOSE k \in keys :
                             \A o \in keys \ {k} : StrLess(o, k)
         IN  <<greatest>> \o Sorted_descending(keys \ {greatest})

\* sorted(keys)
RECURSIVE Sorted(_)
Sorted(keys) ==
    IF keys = {} THEN <<>>
    ELSE LET least == CHOOSE k \in keys :
                          \A o \in keys \ {k} : StrLess(k, o)
         IN  <<least>> \o Sorted(keys \ {least})

-----------------------------------------------------------------------------
(* Program constants *)

\* add_status keeps at most this many messages
MaxStatus == 10
\* get_status shows this many
StatusShown == 5

\* str(self.kernel_source_dir)
KernelSourceDir == "/usr/src/linux-6.16"

\* required_files in validate_kernel_source
RequiredFiles == {"Kconfig", "Makefile", "init"}

\* the header write_config writes before the entries
Header ==
    <<"#", "\n", "#", " ", "A", "u", "t", "o", "m", "a", "t", "i", "c",
      "a", "l", "l", "y", " ", "g", "e", "n", "e", "r", "a", "t", "e", "d",
      " ", "f", "i", "l", "e", ";", " ", "D", "O", " ", "N", "O", "T", " ",
      "E", "D", "I", "T", ".", "\n", "#", "\n", "#", " ", "K", "e", "r",
      "n", "e", "l", " ", "c", "o", "n", "f", "i", "g", "u", "r", "a", "t",
      "i", "o", "n", "\n", "#", "\n", "\n">>

\* the fixed messages apply_config_changes returns
MsgInvalidSource == "Invalid kernel source directory"
MsgNoInitialConfig == "Failed to create initial config"
MsgApplyFailed == "Failed to apply config changes"
MsgValidationPrefix == "Config validation failed: "
MsgSuccess == "Successfully applied and validated config changes"

-----------------------------------------------------------------------------
(* Files *)

NoFile == [exists |-> FALSE, text |-> <<>>]
File(t) == [exists |-> TRUE, text |-> t]

\* str(e) of the OSError a failing open/read/write/copy raises
IOErrorText == "Permission denied"

\* How a file operation can go: it completes, it raises before the target
\* was opened for writing, or it raises after the target was truncated.
IOOutcomes == {"ok", "fail_before", "fail_partial"}

\* shutil.copy2(src, dst): the destination file afterwards
Copy2(src, dst, io) ==
    IF io = "ok" THEN File(src.text)
    ELSE IF io = "fail_before" THEN dst
    ELSE File(<<>>)

-----------------------------------------------------------------------------
(* KernelConfig methods, as functions of what they read *)

\* add_status evicting with pop() instead of pop(0): the newest goes
add_status_pops_newest(log, message) ==
    LET appended == Append(log, message)
    IN  IF Len(appended) > MaxStatus
        THEN SubSeq(appended, 1, MaxStatus) ELSE appended

add_status(log, message) ==
    LET appended == Append(log, message)
    IN  IF Len(appended) > MaxStatus THEN Tail(appended) ELSE appended

\* the last n elements of a list: list[-n:]
LastN(log, n) ==
    IF Len(log) <= n THEN log ELSE SubSeq(log, Len(log) - n + 1, Len(log))

\* "\n".join(messages)
RECURSIVE JoinLines(_)
JoinLines(messages) ==
    IF messages = <<>> THEN ""
    ELSE IF Len(messages) = 1 THEN messages[1]
    ELSE messages[1] \o "\n" \o JoinLines(Tail(messages))

\* get_status slicing [:5] instead of [-5:]: the oldest five
get_status_oldest(log) ==
    JoinLines(IF Len(log) <= StatusShown THEN log
              ELSE SubSeq(log, 1, StatusShown))

get_status(log) == JoinLines(LastN(log, StatusShown))

\* validate_kernel_source without the check of the marker entries
validate_kernel_source_dir_only(dir, present, log) ==
    IF ~dir
    THEN [ok |-> FALSE,
          log |-> add_status(log,
                    "Error: Kernel source directory not found: "
                        \o KernelSourceDir)]
    ELSE [ok |-> TRUE,
          log |-> add_status(log, "Valid kernel source: " \o KernelSourceDir)]

\* validate_kernel_source with all() in place of any()
validate_kernel_source_all_markers(dir, present, log) ==
    IF ~dir
    THEN [ok |-> FALSE,
          log |-> add_status(log,
                    "Error: Kernel source directory not found: "
                        \o KernelSourceDir)]
    ELSE IF ~(\A f \in RequiredFiles : f \in present)
    THEN [ok |-> FALSE,
          log |-> add_status(log,
                    "Error: Directory does not appear to contain kernel source")]
    ELSE [ok |-> TRUE,
          log |-> add_status(log, "Valid kernel source: " \o KernelSourceDir)]

validate_kernel_source(dir, present, log) ==
    IF ~dir
    THEN [ok |-> FALSE,
          log |-> add_status(log,
                    "Error: Kernel source directory not found: "
                        \o KernelSourceDir)]
    ELSE IF ~(\E f \in RequiredFiles : f \in present)
    THEN [ok |-> FALSE,
          log |-> add_status(log,
                    "Error: Directory does not appear to contain kernel source")]
    ELSE [ok |-> TRUE,
          log |-> add_status(log, "Valid kernel source: " \o KernelSourceDir)]

\* position of the last "=" of the line (0 when there is none)
FindLastEq(line) ==
    IF \E i \in 1..Len(line) : line[i] = "="
    THEN MaxOf({i \in 1..Len(line) : line[i] = "="})
    ELSE 0

\* the loop body with rsplit("=", 1): split at the last "="
ParseLine_splits_last(d, raw) ==
    LET line == Strip(raw)
        eq == FindLastEq(line)
    IN  IF line = <<>> \/ StartsWith(line, <<"#">>)
            \/ StartsWith(line, <<"/", "/">>)
        THEN d
        ELSE IF eq = 0 THEN d
        ELSE DictSet(d, Strip(SubSeq(line, 1, eq - 1)),
                        Strip(SubSeq(line, eq + 1, Len(line))))

\* the loop body with setdefault: a key given twice keeps its first value
ParseLine_first_wins(d, raw) ==
    LET line == Strip(raw)
        eq == FindEq(line)
        key == Strip(SubSeq(line, 1, eq - 1))
    IN  IF line = <<>> \/ StartsWith(line, <<"#">>)
            \/ StartsWith(line, <<"/", "/">>)
        THEN d
        ELSE IF eq = 0 THEN d
        ELSE IF key \in DOMAIN d THEN d
        ELSE DictSet(d, key, Strip(SubSeq(line, eq + 1, Len(line))))

\* the body of the loop of read_config for one line
ParseLine(d, raw) ==
    LET line == Strip(raw)
        eq == FindEq(line)
    IN  IF line = <<>> \/ StartsWith(line, <<"#">>)
            \/ StartsWith(line, <<"/", "/">>)
        THEN d
        ELSE IF eq = 0 THEN d
        ELSE DictSet(d, Strip(SubSeq(line, 1, eq - 1)),
                        Strip(SubSeq(line, eq + 1, Len(line))))

RECURSIVE ParseLines(_, _)
ParseLines(d, lines) ==
    IF lines = <<>> THEN d
    ELSE ParseLines(ParseLine(d, Head(lines)), Tail(lines))

\* the dictionary read_config builds from a file's text
ParseConfig(text) == ParseLines(EmptyDict, Lines(UniversalNewlines(text)))

\* read_config: io is "ok" or "fail_before" (open or decoding raises)
read_config(cfg, log, io) ==
    IF ~cfg.exists THEN [dict |-> EmptyDict, log |-> log]
    ELSE IF io = "ok"
    THEN LET d == ParseConfig(cfg.text)
         IN  [dict |-> d,
              log |-> add_status(log,
                        "Read " \o ToString(Cardinality(DOMAIN d))
                            \o " config options")]
    ELSE [dict |-> EmptyDict,
          log |-> add_status(log, "Error reading config: " \o IOErrorText)]

\* the entries written with f.write(f"{key}={config_dict[key]}"): no "\n"
RECURSIVE EntryLines_unterminated(_, _)
EntryLines_unterminated(d, keys) ==
    IF keys = <<>> THEN <<>>
    ELSE Head(keys) \o <<"=">> \o d[Head(keys)]
            \o EntryLines_unterminated(d, Tail(keys))

\* the KEY=VALUE lines write_config writes for the keys in the given order
RECURSIVE EntryLines(_, _)
EntryLines(d, keys) ==
    IF keys = <<>> THEN <<>>
    ELSE Head(keys) \o <<"=">> \o d[Head(keys)] \o <<NL>>
            \o EntryLines(d, Tail(keys))

\* the text write_config writes
ConfigText(d) == Header \o EntryLines(d, Sorted(DOMAIN d))

write_config(cfg, d, log, io) ==
    IF io = "ok"
    THEN [ok |-> TRUE, config |-> File(ConfigText(d)),
          log |-> add_status(log,
                    "Successfully wrote " \o ToString(Cardinality(DOMAIN d))
                        \o " config options")]
    ELSE [ok |-> FALSE,
          config |-> IF io = "fail_before" THEN cfg ELSE File(<<>>),
          log |-> add_status(log, "Error writing config: " \o IOErrorText)]

\* the loop of modify_config over changes.items(), in insertion order
RECURSIVE ApplyChanges(_, _, _)
ApplyChanges(d, log, items) ==
    IF items = <<>> THEN [dict |-> d, log |-> log]
    ELSE ApplyChanges(DictSet(d, Head(items)[1], Head(items)[2]),
                      add_status(log, "Set " \o Str(Head(items)[1]) \o "="
                                          \o Str(Head(items)[2])),
                      Tail(items))

\* modify_config that writes back what it read, without the changes
modify_config_drops_changes(cfg, items, log, ioRead, ioWrite) ==
    IF ~cfg.exists
    THEN [ok |-> FALSE, config |-> cfg, wrote |-> FALSE,
          log |-> add_status(log, "No config file to modify")]
    ELSE LET r == read_config(cfg, log, ioRead)
             w == write_config(cfg, r.dict, r.log, ioWrite)
         IN  [ok |-> w.ok, config |-> w.config, wrote |-> TRUE,
              log |-> w.log]

\* modify_config without the check of lines 253-255
modify_config_creates(cfg, items, log, ioRead, ioWrite) ==
    LET r == read_config(cfg, log, ioRead)
        a == ApplyChanges(r.dict, r.log, items)
        w == write_config(cfg, a.dict, a.log, ioWrite)
    IN  [ok |-> w.ok, config |-> w.config, wrote |-> TRUE, log |-> w.log]

modify_config(cfg, items, log, ioRead, ioWrite) ==
    IF ~cfg.exists
    THEN [ok |-> FALSE, config |-> cfg, wrote |-> FALSE,
          log |-> add_status(log, "No config file to modify")]
    ELSE LET r == read_config(cfg, log, ioRead)
             a == ApplyChanges(r.dict, r.log, items)
             w == write_config(cfg, a.dict, a.log, ioWrite)
         IN  [ok |-> w.ok, config |-> w.config, wrote |-> TRUE,
              log |-> w.log]

\* backup_config with return True one level out: true without a .config
backup_config_always_true(cfg, bak, log, io) ==
    IF ~cfg.exists
    THEN [ok |-> TRUE, config |-> cfg, backup |-> bak, log |-> log]
    ELSE IF io = "ok"
    THEN [ok |-> TRUE, config |-> cfg, backup |-> Copy2(cfg, bak, io),
          log |-> add_status(log, "Created backup of .config")]
    ELSE [ok |-> FALSE, config |-> cfg, backup |-> Copy2(cfg, bak, io),
          log |-> add_status(log, "Failed to backup config: " \o IOErrorText)]

\* backup_config that reports a backup without copying .config
backup_config_no_copy(cfg, bak, log, io) ==
    IF ~cfg.exists
    THEN [ok |-> FALSE, config |-> cfg, backup |-> bak, log |-> log]
    ELSE [ok |-> io = "ok", config |-> cfg, backup |-> bak,
          log |-> add_status(log, "Created backup of .config")]

\* copy2(config_path, backup_path): .config is the source of the copy
backup_config(cfg, bak, log, io) ==
    IF ~cfg.exists
    THEN [ok |-> FALSE, config |-> cfg, backup |-> bak, log |-> log]
    ELSE IF io = "ok"
    THEN [ok |-> TRUE, config |-> cfg, backup |-> Copy2(cfg, bak, io),
          log |-> add_status(log, "Created backup of .config")]
    ELSE [ok |-> FALSE, config |-> cfg, backup |-> Copy2(cfg, bak, io),
          log |-> add_status(log, "Failed to backup config: " \o IOErrorText)]

\* restore_config that reports the restore without copying the backup back
restore_config_no_copy(cfg, bak, log, io) ==
    IF ~bak.exists
    THEN [ok |-> FALSE, config |-> cfg, backup |-> bak, log |-> log]
    ELSE [ok |-> io = "ok", config |-> cfg, backup |-> bak,
          log |-> add_status(log, "Restored .config from backup")]

\* copy2(backup_path, config_path): .config.backup is the source of the copy
restore_config(cfg, bak, log, io) ==
    IF ~bak.exists
    THEN [ok |-> FALSE, config |-> cfg, backup |-> bak, log |-> log]
    ELSE IF io = "ok"
    THEN [ok |-> TRUE, config |-> Copy2(bak, cfg, io), backup |-> bak,
          log |-> add_status(log, "Restored .config from backup")]
    ELSE [ok |-> FALSE, config |-> Copy2(bak, cfg, io), backup |-> bak,
          log |-> add_status(log, "Failed to restore config: " \o IOErrorText)]

-----------------------------------------------------------------------------
(* The external commands: subprocess.run(["make", target], ...) *)

\* result.stderr of a make that exits non-zero
StderrTexts == {"Config validation failed", "Configuration error"}

\* str(e) when subprocess.run raises (the executable cannot be started)
MakeErrorText == "Command not found"

\* One run of make: how subprocess.run ends (exit code 0, another exit code,
\* TimeoutExpired, another exception) and whether the command wrote .config
\* before it ended. A mocked subprocess.run writes nothing; a make that
\* timed out or could not be started has written nothing.
MakeRuns ==
    {[outcome |-> "exit0", stderr |-> "", effect |-> e] :
        e \in {"none", "writes"}}
    \cup {[outcome |-> "nonzero", stderr |-> t, effect |-> e] :
        t \in StderrTexts, e \in {"none", "writes"}}
    \cup {[outcome |-> "timeout", stderr |-> "", effect |-> "none"]}
    \cup {[outcome |-> "error", stderr |-> "", effect |-> "none"]}

\* the .config a real 'make defconfig' generates
DefaultConfigText ==
    <<"#", "\n", "#", " ", "L", "i", "n", "u", "x", "/", "x", "8", "6",
      " ", "K", "e", "r", "n", "e", "l", " ", "C", "o", "n", "f", "i", "g",
      "u", "r", "a", "t", "i", "o", "n", "\n", "#", "\n", "C", "O", "N",
      "F", "I", "G", "_", "6", "4", "B", "I", "T", "=", "y", "\n">>

\* a line a real 'make olddefconfig' adds for an option left undefined
ResolvedLine ==
    <<"C", "O", "N", "F", "I", "G", "_", "R", "E", "S", "O", "L", "V", "E",
      "D", "=", "y", "\n">>

\* ensure_config_exists without the check of lines 107-109: make defconfig
\* runs whether .config is there or not
ensure_config_exists_always_runs(cfg, log, run) ==
    LET log1 == add_status(log,
                    "No .config found, running 'make defconfig'...")
        cfg1 == IF run.effect = "writes" THEN File(DefaultConfigText) ELSE cfg
    IN  [ok |-> run.outcome = "exit0", config |-> cfg1, ran |-> TRUE,
         log |-> add_status(log1, "Successfully generated default config")]

ensure_config_exists(cfg, log, run) ==
    IF cfg.exists
    THEN [ok |-> TRUE, config |-> cfg, ran |-> FALSE,
          log |-> add_status(log, "Found existing .config file")]
    ELSE LET log1 == add_status(log,
                        "No .config found, running 'make defconfig'...")
             cfg1 == IF run.effect = "writes"
                     THEN File(DefaultConfigText) ELSE cfg
         IN  IF run.outcome = "exit0"
             THEN [ok |-> TRUE, config |-> cfg1, ran |-> TRUE,
                   log |-> add_status(log1,
                             "Successfully generated default config")]
             ELSE IF run.outcome = "nonzero"
             THEN [ok |-> FALSE, config |-> cfg1, ran |-> TRUE,
                   log |-> add_status(log1,
                             "make defconfig failed: " \o run.stderr)]
             ELSE IF run.outcome = "timeout"
             THEN [ok |-> FALSE, config |-> cfg1, ran |-> TRUE,
                   log |-> add_status(log1,
                             "make defconfig timed out after 5 minutes")]
             ELSE [ok |-> FALSE, config |-> cfg1, ran |-> TRUE,
                   log |-> add_status(log1,
                             "Error running make defconfig: "
                                 \o MakeErrorText)]

\* the (success, message) pair of run_olddefconfig for one run of make
OlddefconfigResult(run) ==
    IF run.outcome = "exit0"
    THEN <<TRUE, "Successfully resolved config dependencies">>
    ELSE IF run.outcome = "nonzero"
    THEN <<FALSE, "make olddefconfig failed: " \o run.stderr>>
    ELSE IF run.outcome = "timeout"
    THEN <<FALSE, "make olddefconfig timed out after 3 minutes">>
    ELSE <<FALSE, "Error running make olddefconfig: " \o MakeErrorText>>

run_olddefconfig(cfg, log, run) ==
    LET log1 == add_status(log,
                    "Running 'make olddefconfig' to resolve dependencies...")
        r == OlddefconfigResult(run)
    IN  [ok |-> r[1], message |-> r[2],
         config |-> IF run.effect = "writes"
                    THEN File(cfg.text \o ResolvedLine) ELSE cfg,
         log |-> add_status(log1, r[2])]

-----------------------------------------------------------------------------
(* apply_config_changes: what it returns after each step *)

ReturnInvalidSource == <<FALSE, MsgInvalidSource>>
ReturnNoInitialConfig == <<FALSE, MsgNoInitialConfig>>
ReturnApplyFailed == <<FALSE, MsgApplyFailed>>
ReturnValidationFailed_no_detail(message) == <<FALSE, "Config validation failed">>
ReturnValidationFailed(message) == <<FALSE, MsgValidationPrefix \o message>>
ReturnSuccess == <<TRUE, MsgSuccess>>

\* position after validate_kernel_source returned ok
AfterValidate(ok) == IF ok THEN "ensure" ELSE "done"
\* apply_config_changes going on after a failed ensure_config_exists
AfterEnsure_ignores_failure(ok) == "backup"
\* apply_config_changes going from step 2 to step 4, without the backup
AfterEnsure_skips_backup(ok) == IF ok THEN "modify" ELSE "done"
\* position after ensure_config_exists returned ok
AfterEnsure(ok) == IF ok THEN "backup" ELSE "done"
\* apply_config_changes giving up when the backup returned false
AfterBackup_aborts(ok) == IF ok THEN "modify" ELSE "restore"
\* position after backup_config returned: its result is not looked at
AfterBackup(ok) == "modify"
\* apply_config_changes returning after step 4 without running step 5
AfterModify_skips_olddefconfig(ok) == IF ok THEN "done" ELSE "restore"
\* position after modify_config returned ok
AfterModify(ok) == IF ok THEN "olddefconfig" ELSE "restore"
\* apply_config_changes returning a failed step 5 without the rollback
AfterOlddefconfig_no_rollback(ok) == "done"
\* step 5 in a loop: a failed make olddefconfig is run again
AfterOlddefconfig_retries(ok) == IF ok THEN "done" ELSE "olddefconfig"
\* position after run_olddefconfig returned success
AfterOlddefconfig(ok) == IF ok THEN "done" ELSE "restore"
\* position after restore_config returned: its result is not looked at
AfterRestore(ok) == "done"
\* a rollback that reports its own failure instead of the step's
ReturnAfterRestore_escalates(restored, pair) ==
    IF restored THEN pair ELSE <<FALSE, "Failed to restore config">>
\* what is returned after the rollback: the pair of the step that failed
ReturnAfterRestore(restored, pair) == pair

\* What the environment does during one call of apply_config_changes: how
\* the two runs of make end and how the file operations of backup, modify
\* (read, write) and restore go. A step the call does not reach, or that
\* finds no file to work on, has the entry of NoEnv.
NoEnv ==
    [defconfig |-> [outcome |-> "-", stderr |-> "", effect |-> "none"],
     ioBackup |-> "ok", ioRead |-> "ok", ioWrite |-> "ok",
     olddefconfig |-> [outcome |-> "-", stderr |-> "", effect |-> "none"],
     ioRestore |-> "ok"]

\* the element of a set of one element
The(S) == CHOOSE x \in S : TRUE

\* what apply_config_changes returns and leaves behind, given what each of
\* its steps gives: v, e, b, m, o are the results of validate, ensure,
\* backup, modify and run_olddefconfig, r that of the restore of the
\* rollback; used names the entries of env the call consumed
apply_result(cfg, bak, v, e, b, m, o, r) ==
    LET uEnsure == IF e.ran THEN {"defconfig"} ELSE {}
        uBackup == uEnsure \cup (IF e.config.exists THEN {"ioBackup"} ELSE {})
        uModify == uBackup \cup (IF m.wrote THEN {"ioRead", "ioWrite"} ELSE {})
        uRestore == IF b.backup.exists THEN {"ioRestore"} ELSE {}
    IN  IF ~v.ok
        THEN [pair |-> ReturnInvalidSource, config |-> cfg, backup |-> bak,
              log |-> v.log, used |-> {}]
        ELSE IF ~e.ok
        THEN [pair |-> ReturnNoInitialConfig, config |-> e.config,
              backup |-> bak, log |-> e.log, used |-> uEnsure]
        ELSE IF ~m.ok
        THEN [pair |-> ReturnAfterRestore(r.ok, ReturnApplyFailed),
              config |-> r.config, backup |-> r.backup, log |-> r.log,
              used |-> uModify \cup uRestore]
        ELSE IF ~o.ok
        THEN [pair |-> ReturnAfterRestore(r.ok,
                           ReturnValidationFailed(o.message)),
              config |-> r.config, backup |-> r.backup, log |-> r.log,
              used |-> uModify \cup {"olddefconfig"} \cup uRestore]
        ELSE [pair |-> ReturnSuccess, config |-> o.config,
              backup |-> b.backup, log |-> o.log,
              used |-> uModify \cup {"olddefconfig"}]

\* apply_config_changes that first checks the version label and returns a
\* failure for one that names no version
apply_config_changes_checks_version(version, items, dir, present, cfg, bak, env) ==
    IF version \in {"", "not a version"}
    THEN [pair |-> <<FALSE, "Invalid kernel version">>, config |-> cfg,
          backup |-> bak,
          log |-> add_status(<<>>, "Error: invalid kernel version"),
          used |-> {}]
    ELSE The({The({The({The({The({The({
        apply_result(cfg, bak, v, e, b, m, o, r)
        : r \in {restore_config((IF m.ok THEN o ELSE m).config, b.backup,
                                (IF m.ok THEN o ELSE m).log, env.ioRestore)}})
        : o \in {run_olddefconfig(m.config, m.log, env.olddefconfig)}})
        : m \in {modify_config(b.config, items, b.log, env.ioRead,
                               env.ioWrite)}})
        : b \in {backup_config(e.config, bak, e.log, env.ioBackup)}})
        : e \in {ensure_config_exists(cfg, v.log, env.defconfig)}})
        : v \in {validate_kernel_source(dir, present,
                    add_status(<<>>, "Applying config changes for kernel "
                                         \o version))}})

\* configure_kernel_with_changes as one function: a new KernelConfig (empty
\* status log), then apply_config_changes from its first line to its
\* return. Read from the last line up: each step works on what the step
\* before it left; the rollback restores after the step that failed.
apply_config_changes(version, items, dir, present, cfg, bak, env) ==
    The({The({The({The({The({The({
        apply_result(cfg, bak, v, e, b, m, o, r)
        : r \in {restore_config((IF m.ok THEN o ELSE m).config, b.backup,
                                (IF m.ok THEN o ELSE m).log, env.ioRestore)}})
        : o \in {run_olddefconfig(m.config, m.log, env.olddefconfig)}})
        : m \in {modify_config(b.config, items, b.log, env.ioRead,
                               env.ioWrite)}})
        : b \in {backup_config(e.config, bak, e.log, env.ioBackup)}})
        : e \in {ensure_config_exists(cfg, v.log, env.defconfig)}})
        : v \in {validate_kernel_source(dir, present,
                    add_status(<<>>, "Applying config changes for kernel "
                                         \o version))}})

-----------------------------------------------------------------------------
(* Inputs *)

\* the callers that may hold a KernelConfig on the directory
Callers == {"c1", "c2"}

\* kernel_version arguments
Versions == {"6.16"}

\* kernel_version arguments of any shape: a release, the empty str, a str
\* that names no version
VersionLabels == {"6.16", "", "not a version"}

CONFIG_ORIGINAL ==
    <<"C", "O", "N", "F", "I", "G", "_", "O", "R", "I", "G", "I", "N", "A",
      "L">>
CONFIG_TEST ==
    <<"C", "O", "N", "F", "I", "G", "_", "T", "E", "S", "T">>
CONFIG_DEBUG_KERNEL ==
    <<"C", "O", "N", "F", "I", "G", "_", "D", "E", "B", "U", "G", "_", "K",
      "E", "R", "N", "E", "L">>
CONFIG_64BIT ==
    <<"C", "O", "N", "F", "I", "G", "_", "6", "4", "B", "I", "T">>

\* "CONFIG_ORIGINAL=y\n"
OriginalConfigText == CONFIG_ORIGINAL \o <<"=", "y", NL>>

\* a hand-edited file: a "#" comment, a "//" comment, a blank line, spaces
\* around "=", a key given twice, a line without "="
HandEditedText ==
    <<"#", " ", "h", "a", "n", "d", " ", "e", "d", "i", "t", "e", "d",
      "\n", "/", "/", "x", "=", "1", "\n",
      "C", "O", "N", "F", "I", "G", "_", "6", "4", "B", "I", "T", "=", "y", "\n", "\n", "C", "O", "N", "F", "I", "G", "_", "T", "E",
      "S", "T", " ", "=", " ", "m", "\n", "C", "O", "N",
      "F", "I", "G", "_", "6", "4", "B", "I", "T", "=", "n", "\n", "n",
      "o", "t", " ", "a", " ", "c", "o", "n", "f", "i", "g", " ", "l", "i",
      "n", "e", "\n">>

\* the .config files a directory may hold before the first call
InitialConfigs == {NoFile, File(OriginalConfigText), File(HandEditedText)}

\* "CONFIG_BACKUP=y\n"
StaleBackupText ==
    <<"C", "O", "N", "F", "I", "G", "_", "B", "A", "C", "K", "U", "P", "=",
      "y", NL>>

\* the .config.backup files a directory may hold before the first call:
\* none, or one that an earlier run left behind
InitialBackups == {NoFile, File(StaleBackupText)}

\* the marker entries a directory may hold: none, or the three of a kernel
\* source tree
MarkerLayouts == {{}, RequiredFiles}

\* the changes arguments, as changes.items() lists them
ChangesInputs ==
    {<<>>,
     <<<<CONFIG_DEBUG_KERNEL, <<"y">>>>>>,
     <<<<CONFIG_TEST, <<"y">>>>, <<CONFIG_64BIT, <<"n">>>>>>}

-----------------------------------------------------------------------------
(* State of one call *)

NoResult == <<FALSE, "">>
NoRun == [outcome |-> "-", stderr |-> "", effect |-> "none"]
NoSteps ==
    [validate |-> "-", ensure |-> "-", backup |-> "-", modify |-> "-",
     resolve |-> "-", resolveMsg |-> "", restore |-> "-",
     defconfig |-> NoRun, olddefconfig |-> NoRun, ioErrors |-> 0]
NoSnap ==
    [configAtCall |-> NoFile, backupAtCall |-> NoFile,
     configAtBackup |-> NoFile]

TF(b) == IF b THEN "T" ELSE "F"

\* A method called directly on a session: its arguments (message, items,
\* map), what the environment did during the call (probe, ioRead, ioWrite,
\* ioCopy, run), the files and the status log it found (config, backup,
\* log), and how it ended: ret is "T" / "F" for a bool, "dict" / "str" /
\* "pair" / "None" for another returned value (in dict, text, pair), and
\* "raised" when an exception left the method. prevOp, prevRet and prevMap
\* are op, ret and map of the call before it. For apply_config_changes,
\* env is what the environment did during its steps.
NoCall ==
    [op |-> "-", message |-> "", items |-> <<>>, map |-> EmptyDict,
     probe |-> "answers", ioRead |-> "ok", ioWrite |-> "ok", ioCopy |-> "ok",
     run |-> NoRun, env |-> NoEnv,
     config |-> NoFile, backup |-> NoFile, log |-> <<>>,
     ret |-> "-", dict |-> EmptyDict, text |-> "", pair |-> NoResult,
     prevOp |-> "-", prevRet |-> "-", prevMap |-> EmptyDict]

\* one operation of the current call: whether it ran make, whether it
\* changed .config
Event(op, make, before, after) ==
    [op |-> op, make |-> make, changed |-> before # after]

\* an injected I/O error counts against the bound
FaultCost(io) == IF io = "ok" THEN 0 ELSE 1

Init ==
    /\ dirExists \in BOOLEAN
    /\ markers \in MarkerLayouts
    /\ config \in InitialConfigs
    /\ backup \in InitialBackups
    /\ ~dirExists => (markers = {} /\ config = NoFile /\ backup = NoFile)
    /\ pc = [s \in Callers |-> "idle"]
    /\ kernel_version = [s \in Callers |-> "6.16"]
    /\ changes = [s \in Callers |-> <<>>]
    /\ status_messages = [s \in Callers |-> <<>>]
    /\ result = [s \in Callers |-> NoResult]
    /\ pending = [s \in Callers |-> NoResult]
    /\ steps = [s \in Callers |-> NoSteps]
    /\ events = [s \in Callers |-> <<>>]
    /\ snap = [s \in Callers |-> NoSnap]
    /\ calls = 0
    /\ faults = 0
    /\ call = NoCall
    /\ ops = 0
    /\ history = <<>>

-----------------------------------------------------------------------------
(* Actions *)

\* configure_kernel_with_changes: a new KernelConfig, then
\* apply_config_changes up to its first add_status
ConfigureKernelWithChanges(s) ==
    /\ pc[s] \in {"idle", "done"}
    /\ calls < MaxCalls
    /\ \E v \in Versions, c \in ChangesInputs :
        /\ kernel_version' = [kernel_version EXCEPT ![s] = v]
        /\ changes' = [changes EXCEPT ![s] = c]
        /\ status_messages' = [status_messages EXCEPT ![s] =
              add_status(<<>>, "Applying config changes for kernel " \o v)]
    /\ pc' = [pc EXCEPT ![s] = "validate"]
    /\ result' = [result EXCEPT ![s] = NoResult]
    /\ pending' = [pending EXCEPT ![s] = NoResult]
    /\ steps' = [steps EXCEPT ![s] = NoSteps]
    /\ events' = [events EXCEPT ![s] = <<>>]
    /\ snap' = [snap EXCEPT ![s] =
          [NoSnap EXCEPT !.configAtCall = config, !.backupAtCall = backup]]
    /\ calls' = calls + 1
    /\ UNCHANGED <<dirExists, markers, config, backup, faults>>
    /\ UNCHANGED sessionVars

\* Step 1
ValidateKernelSource(s) ==
    /\ pc[s] = "validate"
    /\ LET r == validate_kernel_source(dirExists, markers, status_messages[s])
       IN  /\ status_messages' = [status_messages EXCEPT ![s] = r.log]
           /\ steps' = [steps EXCEPT ![s].validate = TF(r.ok)]
           /\ pc' = [pc EXCEPT ![s] = AfterValidate(r.ok)]
           /\ result' = [result EXCEPT ![s] =
                 IF r.ok THEN @ ELSE ReturnInvalidSource]
    /\ events' = [events EXCEPT ![s] =
          Append(@, Event("validate", FALSE, config, config))]
    /\ UNCHANGED <<dirExists, markers, config, backup, kernel_version,
                   changes, pending, snap, calls, faults>>
    /\ UNCHANGED sessionVars

\* Step 2
EnsureConfigExists(s) ==
    /\ pc[s] = "ensure"
    /\ \E run \in MakeRuns :
        LET r == ensure_config_exists(config, status_messages[s], run)
        IN  /\ r.ran \/ run = CHOOSE x \in MakeRuns : TRUE
            /\ config' = r.config
            /\ status_messages' = [status_messages EXCEPT ![s] = r.log]
            /\ steps' = [steps EXCEPT ![s].ensure = TF(r.ok),
                  ![s].defconfig = IF r.ran THEN run ELSE NoRun]
            /\ pc' = [pc EXCEPT ![s] = AfterEnsure(r.ok)]
            /\ result' = [result EXCEPT ![s] =
                  IF r.ok THEN @ ELSE ReturnNoInitialConfig]
            /\ events' = [events EXCEPT ![s] =
                  Append(@, Event("ensure", r.ran, config, r.config))]
    /\ UNCHANGED <<dirExists, markers, backup, kernel_version, changes,
                   pending, snap, calls, faults>>
    /\ UNCHANGED sessionVars

\* Step 3
BackupConfig(s) ==
    /\ pc[s] = "backup"
    /\ \E io \in IOOutcomes :
        LET r == backup_config(config, backup, status_messages[s], io)
        IN  /\ io # "ok" => (config.exists /\ faults < MaxFaults)
            /\ faults' = faults + FaultCost(io)
            /\ config' = r.config
            /\ backup' = r.backup
            /\ status_messages' = [status_messages EXCEPT ![s] = r.log]
            /\ steps' = [steps EXCEPT ![s].backup = TF(r.ok),
                  ![s].ioErrors = @ + FaultCost(io)]
            /\ pc' = [pc EXCEPT ![s] = AfterBackup(r.ok)]
            /\ events' = [events EXCEPT ![s] =
                  Append(@, Event("backup", FALSE, config, r.config))]
    /\ snap' = [snap EXCEPT ![s].configAtBackup = config]
    /\ UNCHANGED <<dirExists, markers, kernel_version, changes, result,
                   pending, calls>>
    /\ UNCHANGED sessionVars

\* Step 4
ModifyConfig(s) ==
    /\ pc[s] = "modify"
    /\ \E ioRead \in {"ok", "fail_before"}, ioWrite \in IOOutcomes :
        LET r == modify_config(config, changes[s], status_messages[s],
                               ioRead, ioWrite)
            cost == FaultCost(ioRead) + FaultCost(ioWrite)
        IN  /\ cost > 0 => (config.exists /\ faults + cost <= MaxFaults)
            /\ faults' = faults + cost
            /\ config' = r.config
            /\ status_messages' = [status_messages EXCEPT ![s] = r.log]
            /\ steps' = [steps EXCEPT ![s].modify = TF(r.ok),
                  ![s].ioErrors = @ + cost]
            /\ pc' = [pc EXCEPT ![s] = AfterModify(r.ok)]
            /\ pending' = [pending EXCEPT ![s] =
                  IF r.ok THEN @ ELSE ReturnApplyFailed]
            /\ events' = [events EXCEPT ![s] =
                  Append(@, Event("modify", FALSE, config, r.config))]
    /\ UNCHANGED <<dirExists, markers, backup, kernel_version, changes,
                   result, snap, calls>>
    /\ UNCHANGED sessionVars

\* Step 5
RunOlddefconfig(s) ==
    /\ pc[s] = "olddefconfig"
    /\ \E run \in MakeRuns :
        LET r == run_olddefconfig(config, status_messages[s], run)
        IN  /\ config' = r.config
            /\ status_messages' = [status_messages EXCEPT ![s] = r.log]
            /\ steps' = [steps EXCEPT ![s].resolve = TF(r.ok),
                  ![s].resolveMsg = r.message, ![s].olddefconfig = run]
            /\ pc' = [pc EXCEPT ![s] = AfterOlddefconfig(r.ok)]
            /\ result' = [result EXCEPT ![s] =
                  IF r.ok THEN ReturnSuccess ELSE @]
            /\ pending' = [pending EXCEPT ![s] =
                  IF r.ok THEN @ ELSE ReturnValidationFailed(r.message)]
            /\ events' = [events EXCEPT ![s] =
                  Append(@, Event("olddefconfig", TRUE, config, r.config))]
    /\ UNCHANGED <<dirExists, markers, backup, kernel_version, changes,
                   snap, calls, faults>>
    /\ UNCHANGED sessionVars

\* The rollback of steps 4 and 5, then the return of the failure
RestoreConfig(s) ==
    /\ pc[s] = "restore"
    /\ \E io \in IOOutcomes :
        LET r == restore_config(config, backup, status_messages[s], io)
        IN  /\ io # "ok" => (backup.exists /\ faults < MaxFaults)
            /\ faults' = faults + FaultCost(io)
            /\ config' = r.config
            /\ backup' = r.backup
            /\ status_messages' = [status_messages EXCEPT ![s] = r.log]
            /\ steps' = [steps EXCEPT ![s].restore = TF(r.ok),
                  ![s].ioErrors = @ + FaultCost(io)]
            /\ pc' = [pc EXCEPT ![s] = AfterRestore(r.ok)]
            /\ result' = [result EXCEPT ![s] =
                  ReturnAfterRestore(r.ok, pending[s])]
            /\ events' = [events EXCEPT ![s] =
                  Append(@, Event("restore", FALSE, config, r.config))]
    /\ UNCHANGED <<dirExists, markers, kernel_version, changes, pending,
                   snap, calls>>
    /\ UNCHANGED sessionVars

\* the next step of caller s
Step(s) ==
    \/ ConfigureKernelWithChanges(s)
    \/ ValidateKernelSource(s)
    \/ EnsureConfigExists(s)
    \/ BackupConfig(s)
    \/ ModifyConfig(s)
    \/ RunOlddefconfig(s)
    \/ RestoreConfig(s)

\* one caller, one call at a time
Next == \E s \in {"c1"} : Step(s)

Spec == Init /\ [][Next]_vars

-----------------------------------------------------------------------------
(* Two callers on the same directory *)

\* a kernel source directory with a .config and no .config.backup; no file
\* I/O error is injected while the two calls run
InitRace ==
    /\ dirExists = TRUE
    /\ markers = RequiredFiles
    /\ config = File(OriginalConfigText)
    /\ backup = NoFile
    /\ pc = [s \in Callers |-> "idle"]
    /\ kernel_version = [s \in Callers |-> "6.16"]
    /\ changes = [s \in Callers |-> <<>>]
    /\ status_messages = [s \in Callers |-> <<>>]
    /\ result = [s \in Callers |-> NoResult]
    /\ pending = [s \in Callers |-> NoResult]
    /\ steps = [s \in Callers |-> NoSteps]
    /\ events = [s \in Callers |-> <<>>]
    /\ snap = [s \in Callers |-> NoSnap]
    /\ calls = 0
    /\ faults = MaxFaults
    /\ call = NoCall
    /\ ops = 0
    /\ history = <<>>

\* each caller makes one call
StartCall(s) == pc[s] = "idle" /\ ConfigureKernelWithChanges(s)

\* the steps of caller s if apply_config_changes held a lock on the
\* directory from its backup to its return
RaceStep_locked(s) ==
    \/ StartCall(s)
    \/ ValidateKernelSource(s)
    \/ EnsureConfigExists(s)
    \/ /\ \A o \in Callers \ {s} :
             pc[o] \notin {"modify", "olddefconfig", "restore"}
       /\ BackupConfig(s)
    \/ ModifyConfig(s)
    \/ RunOlddefconfig(s)
    \/ RestoreConfig(s)

\* the next step of caller s: no step of apply_config_changes looks at
\* what another caller is doing
RaceStep(s) ==
    \/ StartCall(s)
    \/ ValidateKernelSource(s)
    \/ EnsureConfigExists(s)
    \/ BackupConfig(s)
    \/ ModifyConfig(s)
    \/ RunOlddefconfig(s)
    \/ RestoreConfig(s)

\* the two calls interleaved step by step
NextRace == \E s \in Callers : RaceStep(s)

SpecRace == InitRace /\ [][NextRace]_vars

-----------------------------------------------------------------------------
(* Methods called directly on one session (a KernelConfig object) *)

\* Path.exists() either answers or raises: stat() failing with an errno
\* other than ENOENT, ENOTDIR, EBADF, ELOOP (a directory on the way that
\* may not be searched) is re-raised as PermissionError
ProbeOutcomes == {"answers", "raises"}

\* str(e) of that PermissionError, up to the path it names
ProbeErrorText == "[Errno 13] Permission denied"

\* the record of a call: NoCall with the given fields
Called(op, found, fields) ==
    [f \in DOMAIN NoCall |->
        IF f \in DOMAIN fields THEN fields[f]
        ELSE IF f \in DOMAIN found THEN found[f]
        ELSE IF f = "op" THEN op
        ELSE IF f = "prevOp" THEN call.op
        ELSE IF f = "prevRet" THEN call.ret
        ELSE IF f = "prevMap" THEN call.map
        ELSE NoCall[f]]

\* the files and the status log a call finds
Found == [config |-> config, backup |-> backup, log |-> status_messages["c1"]]

\* the i-th message a caller logs
Message(i) == "Message " \o ToString(i)

\* the directories a session may be created on: absent, or present with
\* any of the marker entries
InitStatus ==
    /\ dirExists \in BOOLEAN
    /\ markers \in SUBSET RequiredFiles
    /\ ~dirExists => markers = {}
    /\ config = NoFile
    /\ backup = NoFile
    /\ pc = [s \in Callers |-> "idle"]
    /\ kernel_version = [s \in Callers |-> "6.16"]
    /\ changes = [s \in Callers |-> <<>>]
    /\ status_messages = [s \in Callers |-> <<>>]
    /\ result = [s \in Callers |-> NoResult]
    /\ pending = [s \in Callers |-> NoResult]
    /\ steps = [s \in Callers |-> NoSteps]
    /\ events = [s \in Callers |-> <<>>]
    /\ snap = [s \in Callers |-> NoSnap]
    /\ calls = 0
    /\ faults = 0
    /\ call = NoCall
    /\ ops = 0
    /\ history = <<>>

\* how many of the calls so far were add_status calls of the caller
Adds ==
    Cardinality({i \in 1..Len(history) :
                    \E j \in 0..(ops - 1) : history[i] = Message(j)})

\* kernel_config.add_status(f"Message {i}")
AddStatus ==
    /\ ops < MaxAdds
    /\ status_messages' = [status_messages EXCEPT !["c1"] =
          add_status(@, Message(ops))]
    /\ history' = Append(history, Message(ops))
    /\ call' = Called("add_status", Found,
                      [message |-> Message(ops), ret |-> "None"])
    /\ ops' = ops + 1
    /\ UNCHANGED <<dirExists, markers, config, backup, faults>>
    /\ UNCHANGED workflowVars

\* kernel_config.get_status()
GetStatus ==
    /\ call' = Called("get_status", Found,
                      [ret |-> "str",
                       text |-> get_status(status_messages["c1"])])
    /\ UNCHANGED <<dirExists, markers, config, backup, faults,
                   status_messages, history, ops>>
    /\ UNCHANGED <<pc, kernel_version, changes, result, pending, steps,
                   events, snap, calls>>

\* validate_kernel_source with an existence probe that may raise: both
\* probes stand outside any try block
validate_kernel_source_call(probe, dir, present, log) ==
    IF probe = "raises" THEN [ret |-> "raised", log |-> log]
    ELSE LET r == validate_kernel_source(dir, present, log)
         IN  [ret |-> TF(r.ok), log |-> r.log]

\* kernel_config.validate_kernel_source()
ValidateKernelSourceCall ==
    /\ ops < MaxAdds
    /\ ops - Adds < MaxOps
    /\ \E probe \in ProbeOutcomes :
        LET r == validate_kernel_source_call(probe, dirExists, markers,
                                             status_messages["c1"])
        IN  /\ probe = "raises" => faults < MaxFaults
            /\ faults' = faults + (IF probe = "raises" THEN 1 ELSE 0)
            /\ status_messages' = [status_messages EXCEPT !["c1"] = r.log]
            /\ history' = IF r.ret = "raised" THEN history
                          ELSE Append(history, r.log[Len(r.log)])
            /\ call' = Called("validate_kernel_source", Found,
                              [probe |-> probe, ret |-> r.ret])
    /\ ops' = ops + 1
    /\ UNCHANGED <<dirExists, markers, config, backup>>
    /\ UNCHANGED workflowVars

NextStatus == AddStatus \/ GetStatus \/ ValidateKernelSourceCall

SpecStatus == InitStatus /\ [][NextStatus]_vars

-----------------------------------------------------------------------------
(* The file and make methods called directly on one session *)

\* dict(items): the dictionary a list of (key, value) pairs builds
RECURSIVE DictOf(_)
DictOf(items) ==
    IF items = <<>> THEN EmptyDict
    ELSE LET n == Len(items)
         IN  DictSet(DictOf(SubSeq(items, 1, n - 1)), items[n][1], items[n][2])

CONFIG_CMDLINE ==
    <<"C", "O", "N", "F", "I", "G", "_", "C", "M", "D", "L", "I", "N", "E">>

\* the dictionaries passed to write_config, as lists of their items in
\* insertion order: none; two options in either order; a quoted value
\* holding "=" and a space; a value that starts with a space; a key that
\* starts with "#"
MapInputs ==
    {<<>>,
     <<<<CONFIG_TEST, <<"y">>>>, <<CONFIG_64BIT, <<"n">>>>>>,
     <<<<CONFIG_64BIT, <<"n">>>>, <<CONFIG_TEST, <<"y">>>>>>,
     <<<<CONFIG_CMDLINE, <<"\"", "a", "=", "b", " ", "c", "\"">>>>>>,
     <<<<CONFIG_TEST, <<" ", "y">>>>>>,
     <<<<<<"#", "K">>, <<"y">>>>>>}

\* a session on an existing kernel source directory
InitFiles ==
    /\ dirExists = TRUE
    /\ markers = RequiredFiles
    /\ config \in InitialConfigs
    /\ backup \in InitialBackups
    /\ pc = [s \in Callers |-> "idle"]
    /\ kernel_version = [s \in Callers |-> "6.16"]
    /\ changes = [s \in Callers |-> <<>>]
    /\ status_messages = [s \in Callers |-> <<>>]
    /\ result = [s \in Callers |-> NoResult]
    /\ pending = [s \in Callers |-> NoResult]
    /\ steps = [s \in Callers |-> NoSteps]
    /\ events = [s \in Callers |-> <<>>]
    /\ snap = [s \in Callers |-> NoSnap]
    /\ calls = 0
    /\ faults = 0
    /\ call = NoCall
    /\ ops = 0
    /\ history = <<>>

\* an existence probe that raises counts against the bound of the faults
ProbeCost(probe) == IF probe = "raises" THEN 1 ELSE 0

\* read_config: the probe of line 185 stands before the try block
read_config_call(probe, cfg, log, io) ==
    IF probe = "raises" THEN [ret |-> "raised", dict |-> EmptyDict, log |-> log]
    ELSE LET r == read_config(cfg, log, io)
         IN  [ret |-> "dict", dict |-> r.dict, log |-> r.log]

\* kernel_config.read_config()
ReadConfigCall ==
    /\ ops < MaxOps
    /\ \E probe \in ProbeOutcomes, io \in {"ok", "fail_before"} :
        LET r == read_config_call(probe, config, status_messages["c1"], io)
            cost == ProbeCost(probe) + FaultCost(io)
        IN  /\ io # "ok" => (probe = "answers" /\ config.exists)
            /\ faults + cost <= MaxFaults
            /\ faults' = faults + cost
            /\ status_messages' = [status_messages EXCEPT !["c1"] = r.log]
            /\ call' = Called("read_config", Found,
                  [probe |-> probe, ioRead |-> io, ret |-> r.ret,
                   dict |-> r.dict])
    /\ ops' = ops + 1
    /\ UNCHANGED <<dirExists, markers, config, backup, history>>
    /\ UNCHANGED workflowVars

\* kernel_config.write_config(dict(items))
WriteConfigCall ==
    /\ ops < MaxOps
    /\ \E items \in MapInputs, io \in IOOutcomes :
        LET r == write_config(config, DictOf(items), status_messages["c1"], io)
        IN  /\ faults + FaultCost(io) <= MaxFaults
            /\ faults' = faults + FaultCost(io)
            /\ config' = r.config
            /\ status_messages' = [status_messages EXCEPT !["c1"] = r.log]
            /\ call' = Called("write_config", Found,
                  [items |-> items, map |-> DictOf(items), ioWrite |-> io,
                   ret |-> TF(r.ok)])
    /\ ops' = ops + 1
    /\ UNCHANGED <<dirExists, markers, backup, history>>
    /\ UNCHANGED workflowVars

\* modify_config: the probe of line 253 and the probe of read_config stand
\* outside every try block
modify_config_call(probe, cfg, items, log, ioRead, ioWrite) ==
    IF probe = "raises"
    THEN [ret |-> "raised", config |-> cfg, log |-> log]
    ELSE LET r == modify_config(cfg, items, log, ioRead, ioWrite)
         IN  [ret |-> TF(r.ok), config |-> r.config, log |-> r.log]

\* kernel_config.modify_config(changes)
ModifyConfigCall ==
    /\ ops < MaxOps
    /\ \E probe \in ProbeOutcomes, items \in ChangesInputs,
          ioRead \in {"ok", "fail_before"}, ioWrite \in IOOutcomes :
        LET r == modify_config_call(probe, config, items,
                                    status_messages["c1"], ioRead, ioWrite)
            cost == ProbeCost(probe) + FaultCost(ioRead) + FaultCost(ioWrite)
        IN  /\ (ioRead # "ok" \/ ioWrite # "ok")
                    => (probe = "answers" /\ config.exists)
            /\ faults + cost <= MaxFaults
            /\ faults' = faults + cost
            /\ config' = r.config
            /\ status_messages' = [status_messages EXCEPT !["c1"] = r.log]
            /\ call' = Called("modify_config", Found,
                  [probe |-> probe, items |-> items, ioRead |-> ioRead,
                   ioWrite |-> ioWrite, ret |-> r.ret])
    /\ ops' = ops + 1
    /\ UNCHANGED <<dirExists, markers, backup, history>>
    /\ UNCHANGED workflowVars

\* backup_config: the probe of line 146 stands inside the try block
backup_config_call(probe, cfg, bak, log, io) ==
    IF probe = "raises"
    THEN [ret |-> "F", config |-> cfg, backup |-> bak,
          log |-> add_status(log, "Failed to backup config: "
                                      \o ProbeErrorText)]
    ELSE LET r == backup_config(cfg, bak, log, io)
         IN  [ret |-> TF(r.ok), config |-> r.config, backup |-> r.backup,
              log |-> r.log]

\* kernel_config.backup_config()
BackupConfigCall ==
    /\ ops < MaxOps
    /\ \E probe \in ProbeOutcomes, io \in IOOutcomes :
        LET r == backup_config_call(probe, config, backup,
                                    status_messages["c1"], io)
            cost == ProbeCost(probe) + FaultCost(io)
        IN  /\ io # "ok" => (probe = "answers" /\ config.exists)
            /\ faults + cost <= MaxFaults
            /\ faults' = faults + cost
            /\ config' = r.config
            /\ backup' = r.backup
            /\ status_messages' = [status_messages EXCEPT !["c1"] = r.log]
            /\ call' = Called("backup_config", Found,
                  [probe |-> probe, ioCopy |-> io, ret |-> r.ret])
    /\ ops' = ops + 1
    /\ UNCHANGED <<dirExists, markers, history>>
    /\ UNCHANGED workflowVars

\* restore_config: the probe of line 165 stands inside the try block
restore_config_call(probe, cfg, bak, log, io) ==
    IF probe = "raises"
    THEN [ret |-> "F", config |-> cfg, backup |-> bak,
          log |-> add_status(log, "Failed to restore config: "
                                      \o ProbeErrorText)]
    ELSE LET r == restore_config(cfg, bak, log, io)
         IN  [ret |-> TF(r.ok), config |-> r.config, backup |-> r.backup,
              log |-> r.log]

\* kernel_config.restore_config()
RestoreConfigCall ==
    /\ ops < MaxOps
    /\ \E probe \in ProbeOutcomes, io \in IOOutcomes :
        LET r == restore_config_call(probe, config, backup,
                                     status_messages["c1"], io)
            cost == ProbeCost(probe) + FaultCost(io)
        IN  /\ io # "ok" => (probe = "answers" /\ backup.exists)
            /\ faults + cost <= MaxFaults
            /\ faults' = faults + cost
            /\ config' = r.config
            /\ backup' = r.backup
            /\ status_messages' = [status_messages EXCEPT !["c1"] = r.log]
            /\ call' = Called("restore_config", Found,
                  [probe |-> probe, ioCopy |-> io, ret |-> r.ret])
    /\ ops' = ops + 1
    /\ UNCHANGED <<dirExists, markers, history>>
    /\ UNCHANGED workflowVars

\* ensure_config_exists: the probe of line 107 stands outside the try block
ensure_config_exists_call(probe, cfg, log, run) ==
    IF probe = "raises"
    THEN [ret |-> "raised", config |-> cfg, ran |-> FALSE, log |-> log]
    ELSE LET r == ensure_config_exists(cfg, log, run)
         IN  [ret |-> TF(r.ok), config |-> r.config, ran |-> r.ran,
              log |-> r.log]

\* kernel_config.ensure_config_exists()
EnsureConfigExistsCall ==
    /\ ops < MaxOps
    /\ \E probe \in ProbeOutcomes, run \in MakeRuns :
        LET r == ensure_config_exists_call(probe, config,
                                           status_messages["c1"], run)
        IN  /\ r.ran \/ run = CHOOSE x \in MakeRuns : TRUE
            /\ faults + ProbeCost(probe) <= MaxFaults
            /\ faults' = faults + ProbeCost(probe)
            /\ config' = r.config
            /\ status_messages' = [status_messages EXCEPT !["c1"] = r.log]
            /\ call' = Called("ensure_config_exists", Found,
                  [probe |-> probe, run |-> IF r.ran THEN run ELSE NoRun,
                   ret |-> r.ret])
    /\ ops' = ops + 1
    /\ UNCHANGED <<dirExists, markers, backup, history>>
    /\ UNCHANGED workflowVars

\* kernel_config.run_olddefconfig()
RunOlddefconfigCall ==
    /\ ops < MaxOps
    /\ \E run \in MakeRuns :
        LET r == run_olddefconfig(config, status_messages["c1"], run)
        IN  /\ run.effect = "writes" => config.exists
            /\ config' = r.config
            /\ status_messages' = [status_messages EXCEPT !["c1"] = r.log]
            /\ call' = Called("run_olddefconfig", Found,
                  [run |-> run, ret |-> "pair",
                   pair |-> <<r.ok, r.message>>])
    /\ ops' = ops + 1
    /\ UNCHANGED <<dirExists, markers, backup, faults, history>>
    /\ UNCHANGED workflowVars

NextFiles ==
    \/ ReadConfigCall
    \/ WriteConfigCall
    \/ ModifyConfigCall
    \/ BackupConfigCall
    \/ RestoreConfigCall
    \/ EnsureConfigExistsCall
    \/ RunOlddefconfigCall

SpecFiles == InitFiles /\ [][NextFiles]_vars

-----------------------------------------------------------------------------
(* One call of configure_kernel_with_changes, with any version label *)

\* what the environment may do during one call
Envs ==
    [defconfig : MakeRuns \cup {NoEnv.defconfig},
     ioBackup : IOOutcomes, ioRead : {"ok", "fail_before"},
     ioWrite : IOOutcomes,
     olddefconfig : MakeRuns \cup {NoEnv.olddefconfig},
     ioRestore : IOOutcomes]

\* the file operations of env that raise
EnvFaults(env) ==
    FaultCost(env.ioBackup) + FaultCost(env.ioRead) + FaultCost(env.ioWrite)
        + FaultCost(env.ioRestore)

\* the directories the call may be made on
InitVersions ==
    /\ dirExists \in BOOLEAN
    /\ markers \in MarkerLayouts
    /\ config \in InitialConfigs
    /\ backup \in InitialBackups
    /\ ~dirExists => (markers = {} /\ config = NoFile /\ backup = NoFile)
    /\ pc = [s \in Callers |-> "idle"]
    /\ kernel_version = [s \in Callers |-> "6.16"]
    /\ changes = [s \in Callers |-> <<>>]
    /\ status_messages = [s \in Callers |-> <<>>]
    /\ result = [s \in Callers |-> NoResult]
    /\ pending = [s \in Callers |-> NoResult]
    /\ steps = [s \in Callers |-> NoSteps]
    /\ events = [s \in Callers |-> <<>>]
    /\ snap = [s \in Callers |-> NoSnap]
    /\ calls = 0
    /\ faults = 0
    /\ call = NoCall
    /\ ops = 0
    /\ history = <<>>

\* configure_kernel_with_changes(dir, v, dict(items)), from the call to the
\* return; one call on each directory
ApplyConfigChangesCall ==
    /\ calls = 0
    /\ \E v \in VersionLabels, items \in ChangesInputs, env \in Envs :
        /\ EnvFaults(env) <= MaxFaults
        /\ config.exists => env.defconfig = NoEnv.defconfig
        /\ ~dirExists => env = NoEnv
        /\ LET r == apply_config_changes(v, items, dirExists, markers,
                                         config, backup, env)
           IN  /\ \A f \in DOMAIN NoEnv :
                     IF f \in r.used
                     THEN f \in {"defconfig", "olddefconfig"}
                              => env[f] # NoEnv[f]
                     ELSE env[f] = NoEnv[f]
               /\ kernel_version' = [kernel_version EXCEPT !["c1"] = v]
               /\ changes' = [changes EXCEPT !["c1"] = items]
               /\ config' = r.config
               /\ backup' = r.backup
               /\ status_messages' = [status_messages EXCEPT !["c1"] = r.log]
               /\ result' = [result EXCEPT !["c1"] = r.pair]
               /\ faults' = EnvFaults(env)
               /\ call' = Called("apply_config_changes",
                                 [config |-> config, backup |-> backup,
                                  log |-> <<>>],
                                 [items |-> items, env |-> env,
                                  ret |-> "pair", pair |-> r.pair])
    /\ pc' = [pc EXCEPT !["c1"] = "done"]
    /\ calls' = 1
    /\ UNCHANGED <<dirExists, markers, pending, steps, events, snap, ops,
                   history>>

NextVersions == ApplyConfigChangesCall

SpecVersions == InitVersions /\ [][NextVersions]_vars

-----------------------------------------------------------------------------
(* Vocabulary of the properties *)

\* the call of caller s has returned
Returned(s) == pc[s] = "done"

\* the operations the current call of s performed, in order
Ops(s) == [i \in 1..Len(events[s]) |-> events[s][i].op]

\* how many times the current call of s performed operation op
Count(s, op) == Cardinality({i \in 1..Len(events[s]) : events[s][i].op = op})

\* needle in text, for two Python strs
Contains(text, needle) ==
    \E i \in 1..(Len(text) + 1) :
        /\ i + Len(needle) - 1 <= Len(text)
        /\ SubSeq(text, i, i + Len(needle) - 1) = needle

\* a subprocess.run mocked to report exit code 0: it writes nothing
MockExit0 == [outcome |-> "exit0", stderr |-> "", effect |-> "none"]
\* a make that exits 0 after writing .config
RealExit0 == [outcome |-> "exit0", stderr |-> "", effect |-> "writes"]

\* the source directory fails validation
InvalidSource == ~dirExists \/ markers \cap RequiredFiles = {}

-----------------------------------------------------------------------------
(* C1: rollback after a successful backup *)

-----------------------------------------------------------------------------
(* C2: scenario A, no .config before the call *)

ScenarioAChanges == <<<<CONFIG_DEBUG_KERNEL, <<"y">>>>>>
ScenarioALine == CONFIG_DEBUG_KERNEL \o <<"=", "y">>

\* the setting of scenario A for the returned call of s, up to what the
\* make defconfig run did
ScenarioA(s) ==
    /\ Returned(s)
    /\ dirExists /\ markers = RequiredFiles
    /\ snap[s].configAtCall = NoFile
    /\ changes[s] = ScenarioAChanges
    /\ steps[s].ioErrors = 0
    /\ steps[s].olddefconfig \in {NoRun, MockExit0}

\* C2 as stated: in scenario A with make defconfig mocked to report exit
\* code 0, the call returns success and .config contains
\* CONFIG_DEBUG_KERNEL=y.
C2_Original ==
    \A s \in Callers :
        (ScenarioA(s) /\ steps[s].defconfig = MockExit0)
            => /\ result[s] = ReturnSuccess
               /\ config.exists /\ Contains(config.text, ScenarioALine)

\* C2, amended: in scenario A where make defconfig exits 0 and has written
\* .config, the call returns success and .config contains
\* CONFIG_DEBUG_KERNEL=y; where the mocked make defconfig only reports exit
\* code 0, the call returns (false, "Failed to apply config changes") and
\* .config is what the rollback left: absent when no .config.backup existed
\* at the call, a copy of that .config.backup otherwise.
C2_ScenarioA ==
    \A s \in Callers :
        /\ (ScenarioA(s) /\ steps[s].defconfig = RealExit0)
            => /\ result[s] =
                    <<TRUE, "Successfully applied and validated config changes">>
               /\ config.exists /\ Contains(config.text, ScenarioALine)
        /\ (ScenarioA(s) /\ steps[s].defconfig = MockExit0)
            => /\ result[s] = <<FALSE, "Failed to apply config changes">>
               /\ config = snap[s].backupAtCall
               /\ backup = snap[s].backupAtCall

C2_Witness ==
    \E s \in Callers :
        /\ ScenarioA(s) /\ steps[s].defconfig = RealExit0
        /\ steps[s].olddefconfig = MockExit0
        /\ result[s][1]

-----------------------------------------------------------------------------
(* C3: invalid source directory *)

\* C3: once a call on a directory that fails validation is past step 1, it
\* has returned (false, "Invalid kernel source directory"), has performed
\* nothing but the validation, has run no external command, and .config
\* and .config.backup are as they were at the call.
C3_InvalidSourceReturnsAtOnce ==
    \A s \in Callers :
        (InvalidSource /\ pc[s] \notin {"idle", "validate"})
            => /\ Returned(s)
               /\ result[s] = <<FALSE, "Invalid kernel source directory">>
               /\ Ops(s) = <<"validate">>
               /\ \A i \in 1..Len(events[s]) : ~events[s][i].make
               /\ config = snap[s].configAtCall
               /\ backup = snap[s].backupAtCall

\* a call on a directory that exists and holds none of the markers
C3_Witness ==
    \E s \in Callers :
        /\ Returned(s) /\ dirExists /\ markers = {}
        /\ result[s] = ReturnInvalidSource

-----------------------------------------------------------------------------
(* C4: make defconfig fails *)

\* C4: once make defconfig of a call exited non-zero, timed out or could
\* not be invoked, the call has returned
\* (false, "Failed to create initial config"), has performed no backup,
\* modify, make olddefconfig or restore, and .config.backup is as it was at
\* the call.
C4_NoInitialConfigReturnsAtOnce ==
    \A s \in Callers :
        steps[s].defconfig.outcome \in {"nonzero", "timeout", "error"}
            => /\ Returned(s)
               /\ result[s] = <<FALSE, "Failed to create initial config">>
               /\ Ops(s) = <<"validate", "ensure">>
               /\ steps[s].olddefconfig = NoRun
               /\ backup = snap[s].backupAtCall

\* a call whose make defconfig timed out
C4_Witness ==
    \E s \in Callers :
        /\ Returned(s) /\ steps[s].defconfig.outcome = "timeout"
        /\ result[s] = ReturnNoInitialConfig

-----------------------------------------------------------------------------
(* C5: backup attempt before mutation *)

\* the current call of s attempted the backup before its i-th operation
BackupBefore(s, i) == \E j \in 1..(i - 1) : events[s][j].op = "backup"

\* C5 as stated: every operation of a call that changed .config comes
\* after a backup attempt of the same call.
C5_Original ==
    \A s \in Callers : \A i \in 1..Len(events[s]) :
        events[s][i].changed => BackupBefore(s, i)

\* C5, amended: every change that modify, make olddefconfig or restore made
\* to .config comes after a backup attempt of the same call; the one change
\* made before it is make defconfig, in step 2, writing a .config that did
\* not exist at the call.
C5_BackupAttemptFirst ==
    \A s \in Callers : \A i \in 1..Len(events[s]) :
        events[s][i].changed =>
            \/ BackupBefore(s, i)
            \/ /\ events[s][i].op = "ensure" /\ events[s][i].make
               /\ snap[s].configAtCall = NoFile

\* a call in which make defconfig wrote .config, the backup was attempted
\* and modify then changed .config
C5_Witness ==
    \E s \in Callers : \E i, j, k \in 1..Len(events[s]) :
        /\ i < j /\ j < k
        /\ events[s][i].op = "ensure" /\ events[s][i].changed
        /\ events[s][j].op = "backup"
        /\ events[s][k].op = "modify" /\ events[s][k].changed

-----------------------------------------------------------------------------
(* C6: restore only for rollback *)

\* C6: a call performs restore at most once and, when it has returned, has
\* performed it exactly once if modify or make olddefconfig failed and not
\* at all otherwise; the restore directly follows the step that failed.
C6_RestoreOnlyForRollback ==
    \A s \in Callers :
        /\ Count(s, "restore") <= 1
        /\ Returned(s) =>
              Count(s, "restore") =
                  IF steps[s].modify = "F" \/ steps[s].resolve = "F"
                  THEN 1 ELSE 0
        /\ \A i \in 1..Len(events[s]) :
              events[s][i].op = "restore" =>
                  /\ i > 1
                  /\ \/ events[s][i - 1].op = "modify"
                        /\ steps[s].modify = "F"
                     \/ events[s][i - 1].op = "olddefconfig"
                        /\ steps[s].resolve = "F"

\* a call whose modify failed and that rolled back
C6_Witness ==
    \E s \in Callers :
        Returned(s) /\ steps[s].modify = "F" /\ Count(s, "restore") = 1

-----------------------------------------------------------------------------
(* C7: the message of a failed make olddefconfig *)

\* the message the text of run_olddefconfig gives for a failed run
ResolverMessage(run) ==
    IF run.outcome = "nonzero"
    THEN "make olddefconfig failed: " \o run.stderr
    ELSE IF run.outcome = "timeout"
    THEN "make olddefconfig timed out after 3 minutes"
    ELSE "Error running make olddefconfig: Command not found"

\* C7: a call whose make olddefconfig failed returns
\* (false, "Config validation failed: " + m) for the message m of the
\* failure; for exit code 1 with stderr "Config validation failed" that is
\* "Config validation failed: make olddefconfig failed: Config validation
\* failed".
C7_ValidationFailureMessage ==
    \A s \in Callers :
        (Returned(s)
            /\ steps[s].olddefconfig.outcome \in {"nonzero", "timeout", "error"})
            => /\ result[s] =
                    <<FALSE, "Config validation failed: "
                                \o ResolverMessage(steps[s].olddefconfig)>>
               /\ steps[s].resolveMsg = ResolverMessage(steps[s].olddefconfig)
               /\ (steps[s].olddefconfig.outcome = "nonzero"
                    /\ steps[s].olddefconfig.stderr = "Config validation failed")
                    => result[s] =
                        <<FALSE, "Config validation failed: make olddefconfig failed: Config validation failed">>

\* scenario B: make olddefconfig exits 1 with stderr "Config validation
\* failed" on a .config that held CONFIG_ORIGINAL=y
C7_Witness ==
    \E s \in Callers :
        /\ Returned(s)
        /\ steps[s].olddefconfig.outcome = "nonzero"
        /\ steps[s].olddefconfig.stderr = "Config validation failed"
        /\ snap[s].configAtCall = File(OriginalConfigText)

-----------------------------------------------------------------------------
(* C8: the returned pair *)

\* the pair the steps' results call for: the message of the first step
\* that failed, success when none did; the backup's result plays no part
ExpectedReturn(st) ==
    IF st.validate = "F" THEN <<FALSE, "Invalid kernel source directory">>
    ELSE IF st.ensure = "F" THEN <<FALSE, "Failed to create initial config">>
    ELSE IF st.modify = "F" THEN <<FALSE, "Failed to apply config changes">>
    ELSE IF st.resolve = "F"
    THEN <<FALSE, "Config validation failed: " \o st.resolveMsg>>
    ELSE <<TRUE, "Successfully applied and validated config changes">>

\* C8: a returned call returned success exactly when validate,
\* ensure_config_exists, modify and make olddefconfig all succeeded in it,
\* and otherwise false with the message of the first step that failed;
\* whether the backup returned true or false makes no difference.
C8_ReturnedPair ==
    \A s \in Callers :
        Returned(s) =>
            /\ result[s] = ExpectedReturn(steps[s])
            /\ result[s][1] <=>
                  /\ steps[s].validate = "T" /\ steps[s].ensure = "T"
                  /\ steps[s].modify = "T" /\ steps[s].resolve = "T"

\* a call that returned success although its backup returned false
C8_Witness ==
    \E s \in Callers :
        Returned(s) /\ steps[s].backup = "F" /\ result[s] = ReturnSuccess

-----------------------------------------------------------------------------
(* C9: make olddefconfig after every modification *)

\* the current call of s ran make olddefconfig after its modify
ResolvedAfterModify(s) ==
    \E i, j \in 1..Len(events[s]) :
        /\ i < j
        /\ events[s][i].op = "modify"
        /\ events[s][j].op = "olddefconfig" /\ events[s][j].make

\* C9: a returned call whose modify wrote the changes ran make olddefconfig
\* after that write, and a call that returned success ran it with exit
\* code 0 after its modify.
C9_ResolveAfterEveryModify ==
    \A s \in Callers :
        /\ (Returned(s) /\ steps[s].modify = "T") => ResolvedAfterModify(s)
        /\ (Returned(s) /\ result[s][1]) =>
              /\ ResolvedAfterModify(s)
              /\ steps[s].modify = "T"
              /\ steps[s].olddefconfig.outcome = "exit0"

\* a call that wrote two changes and returned success
C9_Witness ==
    \E s \in Callers :
        /\ Returned(s) /\ result[s][1] /\ Len(changes[s]) = 2
        /\ \E i \in 1..Len(events[s]) :
              events[s][i].op = "modify" /\ events[s][i].changed

-----------------------------------------------------------------------------
(* C10: a failing rollback *)

\* C10: a returned call whose restore returned false (no backup file, or
\* the copy raised) returned the pair of the step that set off the
\* rollback: "Failed to apply config changes" for modify,
\* "Config validation failed: " + m for make olddefconfig.
C10_RestoreFailureNotEscalated ==
    \A s \in Callers :
        (Returned(s) /\ steps[s].restore = "F") =>
            result[s] =
                IF steps[s].modify = "F"
                THEN <<FALSE, "Failed to apply config changes">>
                ELSE <<FALSE, "Config validation failed: "
                                \o steps[s].resolveMsg>>

\* a rollback whose copy raised although the backup file was there
C10_Witness ==
    \E s \in Callers :
        /\ Returned(s) /\ steps[s].restore = "F" /\ backup.exists
        /\ steps[s].resolve = "F"

-----------------------------------------------------------------------------
(* C12: two interleaved calls race on .config and .config.backup *)

\* the final .config holds every KEY=VALUE line the call of s asked for
HasChanges(s) ==
    \A i \in 1..Len(changes[s]) :
        Contains(config.text,
                 <<NL>> \o changes[s][i][1] \o <<"=">> \o changes[s][i][2]
                     \o <<NL>>)

\* the steps of apply_config_changes that look at the directory, copy
\* .config or .config.backup, or run make
UnguardedSteps == {"validate", "ensure", "backup", "olddefconfig", "restore"}

\* C12: the two calls are not coordinated: whatever the other call is
\* doing, a call that stands before one of these steps can take it; it
\* never waits for the other call to leave the part between its backup and
\* its return. (C12_Witness is the race this leaves open.)
C12_CallsNotCoordinated ==
    \A s \in Callers :
        pc[s] \in UnguardedSteps => ENABLED RaceStep(s)

\* the race: both calls have returned, one of them with success, and the
\* other's rollback has put back the .config it found, so the changes of
\* the successful call are not in the final .config
C12_Witness ==
    \E s \in Callers, o \in Callers :
        /\ s # o /\ Returned(s) /\ Returned(o)
        /\ result[s] = <<TRUE, "Successfully applied and validated config changes">>
        /\ changes[s] # <<>> /\ steps[s].modify = "T"
        /\ ~result[o][1] /\ steps[o].restore = "T"
        /\ events[o][Len(events[o])].op = "restore"
        /\ events[o][Len(events[o])].changed
        /\ ~HasChanges(s)
        /\ config = File(OriginalConfigText)

-----------------------------------------------------------------------------
(* C13: the status log keeps the last 10 messages *)

\* the status log of the session
StatusLog == status_messages["c1"]

\* C13: the status log never holds more than 10 entries, and it is the
\* messages passed to add_status so far, in call order, without all but
\* the last 10 of them: after N > 10 messages exactly the last 10.
C13_StatusLogKeepsLastTen ==
    LET n == Len(history)
        k == IF n < 10 THEN n ELSE 10
    IN  /\ Len(StatusLog) <= 10
        /\ StatusLog = [i \in 1..k |-> history[n - k + i]]

\* twelve messages were logged, one of them by validate_kernel_source: the
\* two oldest are gone
C13_Witness ==
    /\ Len(history) = 12 /\ Len(StatusLog) = 10
    /\ StatusLog[1] = history[3] /\ StatusLog[10] = history[12]
    /\ \E i \in 3..12 : history[i] = "Valid kernel source: " \o KernelSourceDir

-----------------------------------------------------------------------------
(* C14: get_status *)

\* C14: get_status returns the last min(5, length) entries of the status
\* log, oldest first, joined by "\n", and leaves the status log as it was.
C14_GetStatusShowsLastFive ==
    call.op = "get_status"
        => LET n == Len(call.log)
               k == IF n < 5 THEN n ELSE 5
           IN  /\ call.ret = "str"
               /\ call.text = JoinLines([i \in 1..k |-> call.log[n - k + i]])
               /\ StatusLog = call.log

\* get_status on a log of seven messages, as the test does
C14_Witness ==
    /\ call.op = "get_status" /\ Len(call.log) = 7
    /\ call.text = "Message 2\nMessage 3\nMessage 4\nMessage 5\nMessage 6"

-----------------------------------------------------------------------------
(* C19: validate_kernel_source *)

\* C19: a validate_kernel_source call that returns, returns true if and
\* only if the directory exists and at least one of Kconfig, Makefile,
\* init exists under it.
C19_ValidateIffAnyMarker ==
    (call.op = "validate_kernel_source" /\ call.ret # "raised")
        => /\ call.ret \in {"T", "F"}
           /\ call.ret = "T" <=>
                (dirExists /\ \E f \in {"Kconfig", "Makefile", "init"} :
                                 f \in markers)

\* a directory holding the init entry alone is valid
C19_Witness ==
    /\ call.op = "validate_kernel_source" /\ call.ret = "T"
    /\ markers = {"init"}

-----------------------------------------------------------------------------
(* C11: no public operation ends in an unhandled fault *)

\* C11 as stated: whatever the environment did during it, every call of
\* a public method has returned its result; none was left by an
\* exception.
C11_Original == call.op # "-" => call.ret # "raised"

-----------------------------------------------------------------------------
(* C15: write_config followed by read_config *)

\* the status log after the messages were logged on log
RECURSIVE Logged(_, _)
Logged(log, messages) ==
    IF messages = <<>> THEN log
    ELSE Logged(LET appended == Append(log, Head(messages))
                IN  IF Len(appended) > 10 THEN Tail(appended) ELSE appended,
                Tail(messages))

\* a str with no line break in it and no whitespace at either end
Token(t) ==
    /\ \A i \in 1..Len(t) : t[i] \notin {NL, CR}
    /\ t # <<>> => (t[1] \notin {" ", TAB} /\ t[Len(t)] \notin {" ", TAB})

\* a key that read_config gives back as it was written
PlainKey(k) ==
    /\ k # <<>> /\ Token(k)
    /\ \A i \in 1..Len(k) : k[i] # "="
    /\ k[1] # "#"
    /\ ~(Len(k) >= 2 /\ k[1] = "/" /\ k[2] = "/")

\* a map whose keys and values read_config gives back as they were written
PlainMap(m) == \A k \in DOMAIN m : PlainKey(k) /\ Token(m[k])

\* the last call is a read_config that read the file without an I/O error
\* right after a write_config that returned true
ReadAfterWrite ==
    /\ call.op = "read_config" /\ call.ret = "dict" /\ call.ioRead = "ok"
    /\ call.prevOp = "write_config" /\ call.prevRet = "T"

\* C15 as stated: for every map with no empty key, read_config after
\* write_config(m) returns m.
C15_Original ==
    (ReadAfterWrite /\ <<>> \notin DOMAIN call.prevMap)
        => call.dict = call.prevMap

\* C15, amended: for every map with no empty key whose keys and values
\* hold no line break and no whitespace at either end, and whose keys
\* hold no "=" and do not start with "#" or "//", read_config after
\* write_config(m) returns m.
C15_RoundTrip ==
    (ReadAfterWrite /\ PlainMap(call.prevMap))
        => call.dict = call.prevMap

\* a quoted value holding "=" and a space came back as written
C15_Witness ==
    /\ ReadAfterWrite
    /\ DOMAIN call.prevMap = {CONFIG_CMDLINE}
    /\ call.dict = call.prevMap

-----------------------------------------------------------------------------
(* C16: modify_config writes old + changes *)

\* the keys of a list of items
Keys(items) == {items[i][1] : i \in 1..Len(items)}

\* the value the list of items gives key k: that of its last item for k
ValueIn(items, k) ==
    items[MaxOf({i \in 1..Len(items) : items[i][1] = k})][2]

\* old + changes, the values of changes taking precedence
Merged(old, items) ==
    [k \in DOMAIN old \cup Keys(items) |->
        IF k \in Keys(items) THEN ValueIn(items, k) ELSE old[k]]

\* C16 as stated: whenever modify_config on an existing .config has
\* returned true, the parsed map of the file it wrote is the parsed map of
\* the old file with the changes laid over it.
C16_Original ==
    (call.op = "modify_config" /\ call.config.exists /\ call.ret = "T")
        => ParseConfig(config.text)
              = Merged(ParseConfig(call.config.text), call.items)

-----------------------------------------------------------------------------
(* C17: write_config writes the keys in ascending order *)

\* the lines of a written file after the header
EntriesOf(text) ==
    LET ls == Lines(text)
    IN  SubSeq(ls, Len(Lines(Header)) + 1, Len(ls))

\* the KEY=VALUE line of key k of map m
EntryOf(m, k) == k \o <<"=">> \o m[k] \o <<NL>>

\* C17: the file a successful write_config wrote holds, after the header,
\* one KEY=VALUE line per key of the map and nothing else, the keys in
\* strictly ascending order; so writing a map with the same entries again,
\* whatever its insertion order, leaves the file as it is.
C17_WritesKeysAscending ==
    (call.op = "write_config" /\ call.ret = "T")
        => LET m == call.map
               entries == EntriesOf(config.text)
               key(i) == CHOOSE k \in DOMAIN m : entries[i] = EntryOf(m, k)
           IN  /\ Len(entries) = Cardinality(DOMAIN m)
               /\ \A i \in 1..Len(entries) :
                     \E k \in DOMAIN m : entries[i] = EntryOf(m, k)
               /\ \A i, j \in 1..Len(entries) :
                     i < j => StrLess(key(i), key(j))
               /\ (call.prevOp = "write_config" /\ call.prevRet = "T"
                      /\ call.prevMap = m) => config = call.config

\* CONFIG_TEST inserted before CONFIG_64BIT is written after it
C17_Witness ==
    /\ call.op = "write_config" /\ call.ret = "T"
    /\ call.items = <<<<CONFIG_TEST, <<"y">>>>, <<CONFIG_64BIT, <<"n">>>>>>
    /\ EntriesOf(config.text)
          = <<CONFIG_64BIT \o <<"=", "n", NL>>, CONFIG_TEST \o <<"=", "y", NL>>>>
    /\ call.prevOp = "write_config" /\ call.prevMap = call.map
    /\ config = call.config

-----------------------------------------------------------------------------
(* C18: modify_config without a .config *)

\* C18: a modify_config call that finds no .config and returns, returns
\* false, logs "No config file to modify" and nothing else (it neither
\* reads nor writes), and creates no .config; a read_config call that
\* finds no .config and returns, returns the empty map.
C18_ModifyFailsFast ==
    /\ (call.op = "modify_config" /\ ~call.config.exists
            /\ call.ret # "raised")
          => /\ call.ret = "F"
             /\ StatusLog = Logged(call.log, <<"No config file to modify">>)
             /\ ~config.exists
             /\ backup = call.backup
    /\ (call.op = "read_config" /\ ~call.config.exists
            /\ call.ret # "raised")
          => (call.ret = "dict" /\ call.dict = EmptyDict)

\* modify_config with changes to apply found no .config
C18_Witness ==
    /\ call.op = "modify_config" /\ ~call.config.exists
    /\ call.items # <<>> /\ call.ret = "F" /\ ~config.exists

-----------------------------------------------------------------------------
(* C20: backup_config *)

\* C20: backup_config leaves .config as it found it; finding no .config it
\* returns false and leaves .config.backup as it found it (none where
\* there was none); finding .config and copying it without an error it
\* returns true and .config.backup then holds the content of .config.
C20_BackupCopiesConfig ==
    call.op = "backup_config"
        => /\ config = call.config
           /\ ~call.config.exists
                 => (call.ret = "F" /\ backup = call.backup)
           /\ (call.config.exists /\ call.probe = "answers"
                  /\ call.ioCopy = "ok")
                 => (call.ret = "T" /\ backup.exists
                       /\ backup.text = call.config.text)

\* a backup taken over the .config.backup an earlier run left
C20_Witness ==
    /\ call.op = "backup_config" /\ call.ret = "T"
    /\ call.backup = File(StaleBackupText)
    /\ backup = File(HandEditedText)

-----------------------------------------------------------------------------
(* C21: restore_config *)

\* C21 as stated: a restore_config call that finds no .config.backup, or
\* whose copy fails, returns false and leaves .config as it found it; one
\* that finds .config.backup and copies it without an error returns true,
\* .config then holds the content of .config.backup, and .config.backup
\* is as it was.
C21_Original ==
    call.op = "restore_config"
        => /\ (~call.backup.exists \/ call.probe = "raises"
                  \/ call.ioCopy # "ok")
                 => (call.ret = "F" /\ config = call.config)
           /\ (call.backup.exists /\ call.probe = "answers"
                  /\ call.ioCopy = "ok")
                 => (call.ret = "T" /\ config.exists
                       /\ config.text = call.backup.text
                       /\ backup = call.backup)

-----------------------------------------------------------------------------
(* C22: read_config never reports a failure *)

\* what read_config logs when the environment failed it
ReadErrorMessages ==
    {"Error reading config: " \o IOErrorText,
     "Error reading config: " \o ProbeErrorText}

\* C22 as stated: every read_config call returns a map, never a failure;
\* finding no .config it returns the empty map; on any I/O error during the
\* call it returns the empty map and has appended an error message to the
\* status log; .config and .config.backup are as it found them.
C22_Original ==
    call.op = "read_config"
        => /\ call.ret = "dict"
           /\ ~call.config.exists => call.dict = EmptyDict
           /\ (call.probe = "raises" \/ call.ioRead # "ok")
                 => /\ call.dict = EmptyDict
                    /\ \E m \in ReadErrorMessages :
                          StatusLog = Logged(call.log, <<m>>)
           /\ config = call.config
           /\ backup = call.backup

-----------------------------------------------------------------------------
(* C23: what read_config returns for a file it could read *)

\* C23: the map a read_config call returns for a .config it read without
\* an error is given by the lines of the file, each trimmed: the entry
\* lines are those that are not empty, do not start with "#" or "//" and
\* hold an "="; the keys of the map are the trimmed texts before the first
\* "=" of the entry lines, and the value of a key is the trimmed text after
\* the first "=" of the last entry line with that key.
C23_ReadConfigParsesLines ==
    (call.op = "read_config" /\ call.ret = "dict" /\ call.config.exists
        /\ call.ioRead = "ok")
        => LET ls == Lines(UniversalNewlines(call.config.text))
               t(i) == Strip(ls[i])
               entry(i) ==
                   /\ t(i) # <<>>
                   /\ t(i)[1] # "#"
                   /\ ~(Len(t(i)) >= 2 /\ t(i)[1] = "/" /\ t(i)[2] = "/")
                   /\ \E j \in 1..Len(t(i)) : t(i)[j] = "="
               eq(i) == MinOf({j \in 1..Len(t(i)) : t(i)[j] = "="})
               key(i) == Strip(SubSeq(t(i), 1, eq(i) - 1))
               val(i) == Strip(SubSeq(t(i), eq(i) + 1, Len(t(i))))
               entries == {i \in 1..Len(ls) : entry(i)}
           IN  /\ DOMAIN call.dict = {key(i) : i \in entries}
               /\ \A i \in entries :
                     call.dict[key(i)]
                       = val(MaxOf({j \in entries : key(j) = key(i)}))

\* the hand-edited file was read: its comments, its blank line and its
\* line without "=" gave nothing, CONFIG_TEST lost the spaces around "=",
\* and CONFIG_64BIT, given as y and then as n, came back as n
C23_Witness ==
    /\ call.op = "read_config" /\ call.ret = "dict" /\ call.ioRead = "ok"
    /\ call.config = File(HandEditedText)
    /\ DOMAIN call.dict = {CONFIG_64BIT, CONFIG_TEST}
    /\ call.dict[CONFIG_64BIT] = <<"n">>
    /\ call.dict[CONFIG_TEST] = <<"m">>

-----------------------------------------------------------------------------
(* C24: the outcomes of one run of make *)

\* the terminal state of a run of make
Terminal(run) ==
    IF run.outcome = "exit0" THEN "Succeeded"
    ELSE IF run.outcome = "nonzero" THEN "FailedWithOutput"
    ELSE IF run.outcome = "timeout" THEN "TimedOut"
    ELSE "InvocationError"

\* the message of each terminal state, for make defconfig and for make
\* olddefconfig
TerminalMessage(target, run) ==
    IF Terminal(run) = "Succeeded"
    THEN IF target = "defconfig"
         THEN "Successfully generated default config"
         ELSE "Successfully resolved config dependencies"
    ELSE IF Terminal(run) = "FailedWithOutput"
    THEN "make " \o target \o " failed: " \o run.stderr
    ELSE IF Terminal(run) = "TimedOut"
    THEN "make " \o target \o " timed out after "
            \o (IF target = "defconfig" THEN "5" ELSE "3") \o " minutes"
    ELSE "Error running make " \o target \o ": Command not found"

\* how many times the current call of s ran make in operation op
Invocations(s, op) ==
    Cardinality({i \in 1..Len(events[s]) :
                    events[s][i].op = op /\ events[s][i].make})

\* C24: within one call each of the two commands is run at most once,
\* whatever its outcome; a run yields true exactly when it exited 0, and
\* the message it leaves is that of its terminal state, which no other
\* terminal state of the same command shares.
C24_ResolverOutcomes ==
    /\ \A s \in Callers :
          /\ Invocations(s, "ensure") <= 1
          /\ Invocations(s, "olddefconfig") <= 1
          /\ steps[s].defconfig # NoRun
                => LET run == steps[s].defconfig
                   IN  /\ steps[s].ensure = "T" <=> Terminal(run) = "Succeeded"
                       /\ steps[s].ensure = "F"
                             => status_messages[s][Len(status_messages[s])]
                                    = TerminalMessage("defconfig", run)
          /\ steps[s].olddefconfig # NoRun
                => LET run == steps[s].olddefconfig
                   IN  /\ steps[s].resolve = "T" <=> Terminal(run) = "Succeeded"
                       /\ steps[s].resolveMsg
                             = TerminalMessage("olddefconfig", run)
    /\ \A target \in {"defconfig", "olddefconfig"}, r1, r2 \in MakeRuns :
          Terminal(r1) # Terminal(r2)
              => TerminalMessage(target, r1) # TerminalMessage(target, r2)

\* a call whose make defconfig exited 0 and whose make olddefconfig timed
\* out has returned: each command ran once
C24_Witness ==
    \E s \in Callers :
        /\ Returned(s)
        /\ Terminal(steps[s].defconfig) = "Succeeded"
        /\ steps[s].defconfig # NoRun
        /\ Terminal(steps[s].olddefconfig) = "TimedOut"
        /\ Invocations(s, "ensure") = 1
        /\ Invocations(s, "olddefconfig") = 1
        /\ ~result[s][1]

-----------------------------------------------------------------------------
(* C25: ensure_config_exists with a .config in place *)

\* C25: an ensure_config_exists call that finds .config returns true
\* without running make defconfig: it logs "Found existing .config file"
\* and nothing else, and .config and .config.backup are as it found them;
\* a call that ran make defconfig had found no .config.
C25_EnsureKeepsExistingConfig ==
    call.op = "ensure_config_exists"
        => /\ (call.config.exists /\ call.ret # "raised")
                 => /\ call.ret = "T"
                    /\ call.run = NoRun
                    /\ StatusLog
                          = Logged(call.log, <<"Found existing .config file">>)
                    /\ config = call.config
                    /\ backup = call.backup
           /\ call.run # NoRun => ~call.config.exists

\* the hand-edited .config was found and left alone
C25_Witness ==
    /\ call.op = "ensure_config_exists" /\ call.ret = "T"
    /\ call.run = NoRun
    /\ call.config = File(HandEditedText)
    /\ config = File(HandEditedText)

-----------------------------------------------------------------------------
(* C26: .config.backup after a successful call *)

\* the call of s found a .config and has returned success
SucceededOnExistingConfig(s) ==
    /\ Returned(s) /\ result[s] = ReturnSuccess
    /\ snap[s].configAtCall.exists

\* no step of a call removes a .config.backup that was there at the call
BackupNeverDeleted ==
    \A s \in Callers :
        (pc[s] # "idle" /\ snap[s].backupAtCall.exists) => backup.exists

\* C26 as stated: whenever a call that found a .config has returned
\* success, .config.backup exists and holds the content .config had before
\* the call changed it; and the workflow never deletes .config.backup.
C26_Original ==
    /\ \A s \in Callers :
          SucceededOnExistingConfig(s)
              => (backup.exists /\ backup.text = snap[s].configAtCall.text)
    /\ BackupNeverDeleted

\* C26, amended: whenever a call that found a .config and whose step-3
\* backup returned true has returned success, .config.backup exists and
\* holds the content .config had before the call changed it; and the
\* workflow never deletes .config.backup.
C26_BackupHoldsOldConfig ==
    /\ \A s \in Callers :
          (SucceededOnExistingConfig(s) /\ steps[s].backup = "T")
              => (backup.exists /\ backup.text = snap[s].configAtCall.text)
    /\ BackupNeverDeleted

\* a successful call with changes, on a directory that held a .config and
\* a .config.backup of an earlier run: the backup now holds that .config
C26_Witness ==
    \E s \in Callers :
        /\ SucceededOnExistingConfig(s) /\ steps[s].backup = "T"
        /\ changes[s] # <<>>
        /\ snap[s].backupAtCall = File(StaleBackupText)
        /\ snap[s].configAtCall = File(OriginalConfigText)
        /\ backup = File(OriginalConfigText)
        /\ config # File(OriginalConfigText)

-----------------------------------------------------------------------------
(* C27: the version label *)

\* C27: whatever version label a call was given, the same call on the
\* same directory, with the same changes and the same behaviour of the
\* environment, returns the same pair and leaves the same .config and
\* .config.backup under every other label; the label is never a reason to
\* fail (the pair is that of the run with "6.16").
C27_VersionOnlyInStatusText ==
    call.op = "apply_config_changes"
        => \A v \in VersionLabels :
              \A r \in {apply_config_changes(v, call.items, dirExists,
                                             markers, call.config,
                                             call.backup, call.env)} :
                  /\ r.pair = result["c1"]
                  /\ r.config = config
                  /\ r.backup = backup

\* a call labelled "not a version" returned success: its changes are in
\* .config and the label is in its status log
C27_Witness ==
    /\ call.op = "apply_config_changes"
    /\ kernel_version["c1"] = "not a version"
    /\ result["c1"] = ReturnSuccess
    /\ call.items = <<<<CONFIG_DEBUG_KERNEL, <<"y">>>>>>
    /\ Contains(config.text, CONFIG_DEBUG_KERNEL \o <<"=", "y", NL>>)
    /\ StatusLog[1] = "Applying config changes for kernel not a version"

-----------------------------------------------------------------------------
(* C28: what a failed call leaves in .config *)

\* the call of s has returned the failure of step 4 or of step 5
FailedAtStep4Or5(s) ==
    /\ Returned(s)
    /\ steps[s].modify = "F" \/ steps[s].resolve = "F"

\* C28 as stated: over the calls made on a directory, a call that failed
\* at step 4 or step 5 leaves the .config it found at its step 3, whether
\* its own backup returned true or false; what ends up in .config is never
\* the content an earlier call or an earlier run left in .config.backup.
C28_Original ==
    \A s \in Callers :
        FailedAtStep4Or5(s)
            => /\ config = snap[s].configAtBackup
               /\ (snap[s].backupAtCall.exists
                     /\ snap[s].backupAtCall # snap[s].configAtBackup)
                     => config # snap[s].backupAtCall

-----------------------------------------------------------------------------
(* C29: modify_config when .config cannot be read *)

\* C29 as stated: whenever modify_config has returned true, every key the
\* .config held before the call that is not a key of the changes is still
\* in .config, with the value it had; a read that fails inside
\* modify_config does not end in a reported success that lost options.
C29_Original ==
    (call.op = "modify_config" /\ call.ret = "T")
        => LET old == ParseConfig(call.config.text)
               new == ParseConfig(config.text)
           IN  \A k \in DOMAIN old \ Keys(call.items) :
                   k \in DOMAIN new /\ new[k] = old[k]

-----------------------------------------------------------------------------
(* C30: rewriting a parsed file *)

\* C30: the map read_config returned for a file, written by write_config
\* and read again, is the same map; so a modify_config call with no
\* changes that read and wrote .config without an I/O error leaves a file
\* that parses to the map the old file parsed to.
C30_RewriteKeepsParsedMap ==
    /\ (call.op = "read_config" /\ call.ret = "dict")
          => ParseConfig(ConfigText(call.dict)) = call.dict
    /\ (call.op = "modify_config" /\ call.items = <<>> /\ call.ret = "T"
            /\ call.ioRead = "ok")
          => ParseConfig(config.text) = ParseConfig(call.config.text)

\* modify_config({}) rewrote the hand-edited file: the text is another,
\* the two options it held are the same
C30_Witness ==
    /\ call.op = "modify_config" /\ call.items = <<>> /\ call.ret = "T"
    /\ call.ioRead = "ok"
    /\ call.config = File(HandEditedText)
    /\ config # call.config
    /\ DOMAIN ParseConfig(config.text) = {CONFIG_64BIT, CONFIG_TEST}

====
